---- MODULE Spec2Model ----
(***************************************************************************)
(* Model of the todo application: the five task tool handlers of           *)
(* backend/mcpserver/tools, the registry and dispatcher of                 *)
(* backend/mcpserver/mcp_server.py, the JWT middleware of                  *)
(* backend/mcpserver/middleware.py, the chat endpoints of                  *)
(* backend/src/routers/chat.py with backend/src/crud/chat.py, the agent    *)
(* tool functions of backend/src/agents/todo_agent.py and the in-memory    *)
(* TaskList of phase-1-cli-todo.                                           *)
(***************************************************************************)
EXTENDS Integers, Sequences, FiniteSets, TLC

VARIABLES
    tasks,          \* the task table: Task.id -> row
    uuid_count,     \* number of uuid4 values generated so far
    hash_of,        \* value of hash() for each Task.id generated in this process
    now,            \* the UTC clock read by utc_now() / datetime.now(UTC)
    issued,         \* history: every structured reply of a successful add_task
    last,           \* the most recent handler invocation and its envelope
    tools,          \* TodoMCPServer.tools, in insertion order
    tool_handlers,  \* TodoMCPServer.tool_handlers
    call,           \* the most recent call_tool invocation and its outcome
    auth,           \* the most recent JWTMiddleware.validate_request outcome
    conversations,  \* the conversation table, in order of creation
    messages,       \* the message table, in order of insertion
    chat,           \* the most recent call of a chat endpoint or crud function
    task_list,      \* the TaskList object of the command-line application
    cli,            \* the most recent TaskList method call
    freed,          \* history: the ids delete_task removed from the TaskList
    reply,          \* the most recent call of an agent tool function
    running,        \* handler invocations suspended between select and commit
    finished        \* history: the invocations that returned, with their envelopes

vars == <<tasks, uuid_count, hash_of, now, issued, last, tools, tool_handlers, call, auth,
          conversations, messages, chat, task_list, cli, freed, reply, running, finished>>

storeVars == <<tasks, uuid_count, hash_of, issued>>
serverVars == <<tools, tool_handlers, call, auth>>
chatVars == <<conversations, messages, chat>>
cliVars == <<task_list, cli, freed>>
agentVars == <<reply>>
raceVars == <<running, finished>>
restVars == <<chatVars, cliVars, agentVars, raceVars>>

----------------------------------------------------------------------------
(* Bounds of the model *)

MaxTasks == 2
MaxClock == 2
MaxPieces == 3

----------------------------------------------------------------------------
(* Values *)

None == [none |-> TRUE]
Some(v) == [some |-> v]

\* a Python str, abstracted to its length and a tag standing for its content
Str(l, t) == [len |-> l, tag |-> t]

\* the string produced by uuid.uuid4() on its n-th call
Uuid(n) == [kind |-> "str", form |-> "uuid", n |-> n]
\* the decimal string of the natural number n
Digits(n) == [kind |-> "str", form |-> "digits", n |-> n]
\* a string that is neither a generated uuid nor a decimal number
Word(n) == [kind |-> "str", form |-> "word", n |-> n]
\* the Python int n
PyInt(n) == [kind |-> "int", form |-> "int", n |-> n]

\* str(x) for x a str or a non-negative int
str(x) == IF x.kind = "int" THEN Digits(x.n) ELSE x
\* s.isdigit()
isdigit(s) == s.kind = "str" /\ s.form = "digits"

MaxTitleLen == 200
MaxDescLen == 1000
HashMod == 100000000

Users == {"A", "B"}
\* values hash() may take on a generated id
HashVals == {42, 100000042, 7}
\* a hash() that happens to tell the generated ids apart
distinct_hash(n) == 1000 + n
\* the ids uuid4 generates within the bound
UuidPool == {Uuid(n) : n \in 1..MaxTasks}

----------------------------------------------------------------------------
(* mcpserver/errors.py *)

Text(fmt, args) == <<fmt, args>>

TextContent(text) == <<[type |-> "text", text |-> text]>>

ValidationError(fields) == [message |-> Text("{pydantic errors}", <<[fields |-> fields]>>),
                            error_code |-> "VALIDATION_ERROR"]

NotFoundError(resource, identifier) ==
    [message |-> Text("{resource} {identifier} not found", <<[s |-> resource], str(identifier)>>),
     error_code |-> "NOT_FOUND"]

DatabaseError(message) == [message |-> Text(message, <<>>), error_code |-> "DATABASE_ERROR"]

UnauthorizedError(message) == [message |-> Text(message, <<>>), error_code |-> "UNAUTHORIZED"]

\* create_error_response also returning the error code as structured content
create_error_response_with_code(error) ==
    [content |-> TextContent(error.message), isError |-> TRUE,
     structuredContent |-> [error_code |-> error.error_code]]

create_error_response(error) ==
    [content |-> TextContent(error.message), isError |-> TRUE]

create_success_response(content_text, structured_content) ==
    IF structured_content # None
    THEN [content |-> TextContent(content_text), isError |-> FALSE,
          structuredContent |-> structured_content]
    ELSE [content |-> TextContent(content_text), isError |-> FALSE]

----------------------------------------------------------------------------
(* mcpserver/schemas.py: the set of fields each parameter model rejects *)

\* AddTaskParams without max_length on title and description
AddTaskParams_without_max_length(user_id, title, description) ==
    (IF user_id = "" THEN {"user_id"} ELSE {})
    \cup (IF title.len < 1 THEN {"title"} ELSE {})

AddTaskParams(user_id, title, description) ==
    (IF user_id = "" THEN {"user_id"} ELSE {})
    \cup (IF title.len < 1 \/ title.len > MaxTitleLen THEN {"title"} ELSE {})
    \cup (IF description # None /\ description.len > MaxDescLen THEN {"description"} ELSE {})

\* ListTasksParams without the pattern on status
ListTasksParams_without_pattern(user_id, status) ==
    IF user_id = "" THEN {"user_id"} ELSE {}

ListTasksParams(user_id, status) ==
    (IF user_id = "" THEN {"user_id"} ELSE {})
    \cup (IF status \notin {"all", "pending", "completed"} THEN {"status"} ELSE {})

CompleteTaskParams(user_id, task_id) ==
    IF user_id = "" THEN {"user_id"} ELSE {}

\* UpdateTaskParams without its model validator
check_no_field(title, description) == {}

check_at_least_one_field(title, description) ==
    IF title = None /\ description = None THEN {"__root__"} ELSE {}

UpdateTaskParams(user_id, task_id, title, description) ==
    LET fieldErrors ==
            (IF user_id = "" THEN {"user_id"} ELSE {})
            \cup (IF title # None /\ (title.len < 1 \/ title.len > MaxTitleLen)
                  THEN {"title"} ELSE {})
            \cup (IF description # None /\ description.len > MaxDescLen
                  THEN {"description"} ELSE {})
    IN  IF fieldErrors # {} THEN fieldErrors
        ELSE check_at_least_one_field(title, description)

DeleteTaskParams(user_id, task_id) ==
    IF user_id = "" THEN {"user_id"} ELSE {}

----------------------------------------------------------------------------
(* src/models/task.py and the storage queries of the handlers.  A database  *)
(* db is the task table together with the ids generated and their hashes.  *)

Database(tks, hashes, count) == [tasks |-> tks, hash_of |-> hashes, uuid_count |-> count]

Task(user_id, title, description, completed) ==
    [user_id |-> user_id, title |-> title, description |-> description,
     completed |-> completed, created_at |-> now, updated_at |-> None]

\* int(task.id) if task.id.isdigit() else hash(task.id) % (10 ** 8)
response_task_id(id, hashes) ==
    IF isdigit(id) THEN id.n ELSE hashes[id] % HashMod

\* select_task without the Task.user_id condition
select_task_by_id_only(db, task_id_str, user_id) ==
    IF task_id_str \in DOMAIN db.tasks THEN Some(task_id_str) ELSE None

\* select(Task).where(Task.id == task_id_str, Task.user_id == user_id) ... .first()
select_task(db, task_id_str, user_id) ==
    IF task_id_str \in DOMAIN db.tasks /\ db.tasks[task_id_str].user_id = user_id
    THEN Some(task_id_str)
    ELSE None

\* select_tasks without the Task.user_id condition
select_tasks_of_any_owner(db, user_id, status) ==
    {id \in DOMAIN db.tasks :
        /\ (status = "completed" => db.tasks[id].completed = TRUE)
        /\ (status = "pending" => db.tasks[id].completed = FALSE)}

\* select(Task).where(Task.user_id == user_id) with the status filter applied
select_tasks(db, user_id, status) ==
    {id \in DOMAIN db.tasks :
        /\ db.tasks[id].user_id = user_id
        /\ (status = "completed" => db.tasks[id].completed = TRUE)
        /\ (status = "pending" => db.tasks[id].completed = FALSE)}

\* the row orders ORDER BY created_at DESC admits for the selected rows
order_by_created_at_desc(db, ids) ==
    LET n == Cardinality(ids)
    IN  {s \in [1..n -> ids] :
            /\ \A i, j \in 1..n : i # j => s[i] # s[j]
            /\ \A i, j \in 1..n :
                  i < j => db.tasks[s[i]].created_at >= db.tasks[s[j]].created_at}

\* TaskItem built without the description
TaskItem_without_description(db, id) ==
    [id |-> response_task_id(id, db.hash_of), title |-> db.tasks[id].title,
     description |-> None, completed |-> db.tasks[id].completed,
     created_at |-> db.tasks[id].created_at, updated_at |-> db.tasks[id].updated_at]

TaskItem(db, id) ==
    [id |-> response_task_id(id, db.hash_of), title |-> db.tasks[id].title,
     description |-> db.tasks[id].description, completed |-> db.tasks[id].completed,
     created_at |-> db.tasks[id].created_at, updated_at |-> db.tasks[id].updated_at]

\* what a handler leaves behind: the envelope it returns, the rows its
\* statement touched, and the database after it
Outcome(env, rows, db) == [env |-> env, rows |-> rows, db |-> db]

\* the missing storage handle reported as a parameter error
session_rejected_as_parameter ==
    create_error_response(ValidationError({"session"}))

session_not_available ==
    create_error_response(DatabaseError("Database session not available"))

\* task_not_found answering differently for a task stored under another owner
task_not_found_or_forbidden(db, task_id) ==
    IF str(task_id) \in DOMAIN db.tasks
    THEN create_error_response(UnauthorizedError("Unauthorized access"))
    ELSE create_error_response(NotFoundError("Task", task_id))

\* if task is None: return create_error_response(NotFoundError("Task", params.task_id))
task_not_found(db, task_id) ==
    create_error_response(NotFoundError("Task", task_id))

----------------------------------------------------------------------------
(* mcpserver/tools/add_task.py *)

\* h is the value hash(task.id) takes for the id generated by this call
add_task(db, user_id, title, description, session, h) ==
    LET errors == AddTaskParams(user_id, title, description)
    IN  IF errors # {}
        THEN Outcome(create_error_response(ValidationError(errors)), <<>>, db)
        ELSE IF ~session
        THEN Outcome(session_not_available, <<>>, db)
        ELSE LET id == Uuid(db.uuid_count + 1)
                 task == Task(user_id, title, description, FALSE)
                 hashes == [i \in DOMAIN db.hash_of \cup {id} |->
                               IF i = id THEN h ELSE db.hash_of[i]]
                 response_data == [task_id |-> response_task_id(id, hashes),
                                   status |-> "created",
                                   title |-> task.title,
                                   message |-> Text("Task created successfully", <<>>)]
             IN  Outcome(create_success_response(
                             Text("Task '{title}' created successfully", <<task.title>>),
                             response_data),
                         <<id>>,
                         Database([i \in DOMAIN db.tasks \cup {id} |->
                                      IF i = id THEN task ELSE db.tasks[i]],
                                  hashes, db.uuid_count + 1))

----------------------------------------------------------------------------
(* mcpserver/tools/list_tasks.py *)

\* rows is the order in which the statement returned the selected rows
list_tasks_response(db, status, rows) ==
    LET task_items == [i \in 1..Len(rows) |-> TaskItem(db, rows[i])]
        response_data == [tasks |-> task_items,
                          count |-> Len(task_items),
                          status |-> "success"]
    IN  create_success_response(
            Text("Retrieved {count} task(s) with status '{status}'",
                 <<[n |-> Len(task_items)], [s |-> status]>>),
            response_data)

\* the outcomes list_tasks can have: one per row order the database may return
list_tasks(db, user_id, status, session) ==
    LET errors == ListTasksParams(user_id, status)
    IN  IF errors # {}
        THEN {Outcome(create_error_response(ValidationError(errors)), <<>>, db)}
        ELSE IF ~session
        THEN {Outcome(session_not_available, <<>>, db)}
        ELSE {Outcome(list_tasks_response(db, status, rows), rows, db) :
                rows \in order_by_created_at_desc(db, select_tasks(db, user_id, status))}

----------------------------------------------------------------------------
(* mcpserver/tools/complete_task.py *)

\* complete_task setting the flag instead of toggling it
complete_task_marks_completed(db, user_id, task_id, session) ==
    LET errors == CompleteTaskParams(user_id, task_id)
        task_id_str == str(task_id)
        found == select_task(db, task_id_str, user_id)
    IN  IF errors # {}
        THEN Outcome(create_error_response(ValidationError(errors)), <<>>, db)
        ELSE IF ~session
        THEN Outcome(session_not_available, <<>>, db)
        ELSE IF found = None
        THEN Outcome(task_not_found(db, task_id), <<>>, db)
        ELSE LET id == found.some
                 task == [db.tasks[id] EXCEPT !.completed = TRUE, !.updated_at = Some(now)]
                 response_data == [task_id |-> response_task_id(id, db.hash_of),
                                   status |-> "completed",
                                   title |-> task.title,
                                   message |-> Text("Task marked as {new_status_str}",
                                                    <<[s |-> "completed"]>>)]
             IN  Outcome(create_success_response(
                             Text("Task '{title}' marked as {new_status_str}",
                                  <<task.title, [s |-> "completed"]>>),
                             response_data),
                         <<id>>,
                         [db EXCEPT !.tasks[id] = task])

complete_task(db, user_id, task_id, session) ==
    LET errors == CompleteTaskParams(user_id, task_id)
        task_id_str == str(task_id)
        found == select_task(db, task_id_str, user_id)
    IN  IF errors # {}
        THEN Outcome(create_error_response(ValidationError(errors)), <<>>, db)
        ELSE IF ~session
        THEN Outcome(session_not_available, <<>>, db)
        ELSE IF found = None
        THEN Outcome(task_not_found(db, task_id), <<>>, db)
        ELSE LET id == found.some
                 task == [db.tasks[id] EXCEPT !.completed = ~db.tasks[id].completed,
                                              !.updated_at = Some(now)]
                 new_status_str == IF task.completed THEN "completed" ELSE "uncompleted"
                 response_data == [task_id |-> response_task_id(id, db.hash_of),
                                   status |-> new_status_str,
                                   title |-> task.title,
                                   message |-> Text("Task marked as {new_status_str}",
                                                    <<[s |-> new_status_str]>>)]
             IN  Outcome(create_success_response(
                             Text("Task '{title}' marked as {new_status_str}",
                                  <<task.title, [s |-> new_status_str]>>),
                             response_data),
                         <<id>>,
                         [db EXCEPT !.tasks[id] = task])

----------------------------------------------------------------------------
(* mcpserver/tools/update_task.py *)

\* update_task stamping created_at as well
update_task_resets_created_at(db, user_id, task_id, title, description, session) ==
    LET errors == UpdateTaskParams(user_id, task_id, title, description)
        task_id_str == str(task_id)
        found == select_task(db, task_id_str, user_id)
    IN  IF errors # {}
        THEN Outcome(create_error_response(ValidationError(errors)), <<>>, db)
        ELSE IF ~session
        THEN Outcome(session_not_available, <<>>, db)
        ELSE IF found = None
        THEN Outcome(task_not_found(db, task_id), <<>>, db)
        ELSE LET id == found.some
                 task == [db.tasks[id] EXCEPT
                             !.title = IF title # None THEN title ELSE @,
                             !.description = IF description # None THEN description ELSE @,
                             !.created_at = now,
                             !.updated_at = Some(now)]
                 response_data == [task_id |-> response_task_id(id, db.hash_of),
                                   status |-> "updated",
                                   title |-> task.title,
                                   message |-> Text("Task updated successfully", <<>>)]
             IN  Outcome(create_success_response(
                             Text("Task '{title}' updated successfully", <<task.title>>),
                             response_data),
                         <<id>>,
                         [db EXCEPT !.tasks[id] = task])

update_task(db, user_id, task_id, title, description, session) ==
    LET errors == UpdateTaskParams(user_id, task_id, title, description)
        task_id_str == str(task_id)
        found == select_task(db, task_id_str, user_id)
    IN  IF errors # {}
        THEN Outcome(create_error_response(ValidationError(errors)), <<>>, db)
        ELSE IF ~session
        THEN Outcome(session_not_available, <<>>, db)
        ELSE IF found = None
        THEN Outcome(task_not_found(db, task_id), <<>>, db)
        ELSE LET id == found.some
                 task == [db.tasks[id] EXCEPT
                             !.title = IF title # None THEN title ELSE @,
                             !.description = IF description # None THEN description ELSE @,
                             !.updated_at = Some(now)]
                 response_data == [task_id |-> response_task_id(id, db.hash_of),
                                   status |-> "updated",
                                   title |-> task.title,
                                   message |-> Text("Task updated successfully", <<>>)]
             IN  Outcome(create_success_response(
                             Text("Task '{title}' updated successfully", <<task.title>>),
                             response_data),
                         <<id>>,
                         [db EXCEPT !.tasks[id] = task])

----------------------------------------------------------------------------
(* mcpserver/tools/delete_task.py *)

\* delete_task answering "deleted" without removing the row
delete_task_keeps_row(db, user_id, task_id, session) ==
    LET errors == DeleteTaskParams(user_id, task_id)
        task_id_str == str(task_id)
        found == select_task(db, task_id_str, user_id)
    IN  IF errors # {}
        THEN Outcome(create_error_response(ValidationError(errors)), <<>>, db)
        ELSE IF ~session
        THEN Outcome(session_not_available, <<>>, db)
        ELSE IF found = None
        THEN Outcome(task_not_found(db, task_id), <<>>, db)
        ELSE LET id == found.some
                 task_title == db.tasks[id].title
                 response_data == [task_id |-> response_task_id(id, db.hash_of),
                                   status |-> "deleted",
                                   title |-> task_title,
                                   message |-> Text("Task deleted successfully", <<>>)]
             IN  Outcome(create_success_response(
                             Text("Task '{task_title}' deleted successfully", <<task_title>>),
                             response_data),
                         <<id>>,
                         db)

delete_task(db, user_id, task_id, session) ==
    LET errors == DeleteTaskParams(user_id, task_id)
        task_id_str == str(task_id)
        found == select_task(db, task_id_str, user_id)
    IN  IF errors # {}
        THEN Outcome(create_error_response(ValidationError(errors)), <<>>, db)
        ELSE IF ~session
        THEN Outcome(session_not_available, <<>>, db)
        ELSE IF found = None
        THEN Outcome(task_not_found(db, task_id), <<>>, db)
        ELSE LET id == found.some
                 task_title == db.tasks[id].title
                 task_id_response == response_task_id(id, db.hash_of)
                 response_data == [task_id |-> task_id_response,
                                   status |-> "deleted",
                                   title |-> task_title,
                                   message |-> Text("Task deleted successfully", <<>>)]
             IN  Outcome(create_success_response(
                             Text("Task '{task_title}' deleted successfully", <<task_title>>),
                             response_data),
                         <<id>>,
                         [db EXCEPT !.tasks = [i \in DOMAIN db.tasks \ {id} |-> db.tasks[i]]])

----------------------------------------------------------------------------
(* The state of the program and the effect of one handler invocation on it *)

\* the database the storage handle reaches
database == Database(tasks, hash_of, uuid_count)

\* a handler invocation: its arguments, the rows its statement touched, and
\* the envelope it returned
Invocation(op, args, rows, env) == [op |-> op, args |-> args, rows |-> rows, env |-> env]

NoInvocation == Invocation("none", None, <<>>, None)

\* the handler op, called with args, returns with outcome r
Returns(op, args, r) ==
    /\ r.db.uuid_count <= MaxTasks
    /\ tasks' = r.db.tasks
    /\ hash_of' = r.db.hash_of
    /\ uuid_count' = r.db.uuid_count
    /\ issued' = IF op = "add_task" /\ ~r.env.isError
                 THEN issued \cup {[task_id |-> r.env.structuredContent.task_id,
                                    id |-> r.rows[1], user_id |-> args.user_id]}
                 ELSE issued
    /\ last' = Invocation(op, args, r.rows, r.env)
    /\ UNCHANGED <<now, chatVars, cliVars, raceVars>>

----------------------------------------------------------------------------
(* mcpserver/mcp_server.py *)

ToolDescription(handler) ==
    CASE handler = "add_task" -> "Create a new task for the authenticated user"
      [] handler = "list_tasks" -> "Retrieve the user's tasks"
      [] handler = "complete_task" -> "Toggle task completion"
      [] handler = "update_task" -> "Update task details"
      [] handler = "delete_task" -> "Delete a task"

ToolSchema(handler) ==
    CASE handler = "add_task" -> "AddTaskParams"
      [] handler = "list_tasks" -> "ListTasksParams"
      [] handler = "complete_task" -> "CompleteTaskParams"
      [] handler = "update_task" -> "UpdateTaskParams"
      [] handler = "delete_task" -> "DeleteTaskParams"

tool_names(registry) == {registry[i].name : i \in 1..Len(registry)}

\* a registry kept as a list that every registration appends to
register_tool_appending(registry, handlers, name, description, input_schema, handler) ==
    [tools |-> Append(registry, [name |-> name, description |-> description,
                                 inputSchema |-> input_schema]),
     tool_handlers |-> [n \in DOMAIN handlers \cup {name} |->
                           IF n = name THEN handler ELSE handlers[n]]]

\* self.tools[name] = {...}; self.tool_handlers[name] = handler
register_tool_into(registry, handlers, name, description, input_schema, handler) ==
    LET entry == [name |-> name, description |-> description, inputSchema |-> input_schema]
    IN  [tools |-> IF name \in tool_names(registry)
                   THEN [i \in 1..Len(registry) |->
                            IF registry[i].name = name THEN entry ELSE registry[i]]
                   ELSE Append(registry, entry),
         tool_handlers |-> [n \in DOMAIN handlers \cup {name} |->
                               IF n = name THEN handler ELSE handlers[n]]]

\* the registry TodoMCPServer.__init__ leaves behind
_register_tools ==
    register_tool_into(<<>>, <<>>, "add_task", ToolDescription("add_task"),
                       ToolSchema("add_task"), "add_task")

register_tool(name, description, input_schema, handler) ==
    LET r == register_tool_into(tools, tool_handlers, name, description, input_schema, handler)
    IN  /\ tools' = r.tools
        /\ tool_handlers' = r.tool_handlers
        /\ UNCHANGED <<storeVars, now, last, call, auth, restVars>>

get_tools_list == tools

\* the keyword parameters of each handler besides session
RequiredParams(handler) ==
    CASE handler = "add_task" -> {"user_id", "title"}
      [] handler = "list_tasks" -> {"user_id"}
      [] handler \in {"complete_task", "update_task", "delete_task"} -> {"user_id", "task_id"}

OptionalParams(handler) ==
    CASE handler = "add_task" -> {"description"}
      [] handler = "list_tasks" -> {"status"}
      [] handler = "update_task" -> {"title", "description"}
      [] handler \in {"complete_task", "delete_task"} -> {}

\* handler(**arguments, session=session) binds without a TypeError
Binds(handler, arguments) ==
    /\ "session" \notin DOMAIN arguments
    /\ RequiredParams(handler) \subseteq DOMAIN arguments
    /\ DOMAIN arguments \subseteq RequiredParams(handler) \cup OptionalParams(handler)

Get(arguments, key, default) ==
    IF key \in DOMAIN arguments THEN arguments[key] ELSE default

\* the arguments as the handler receives them, defaults filled in
BoundArguments(handler, arguments, session) ==
    CASE handler = "add_task" ->
            [user_id |-> arguments.user_id, title |-> arguments.title,
             description |-> Get(arguments, "description", None), session |-> session]
      [] handler = "list_tasks" ->
            [user_id |-> arguments.user_id, status |-> Get(arguments, "status", "all"),
             session |-> session]
      [] handler = "update_task" ->
            [user_id |-> arguments.user_id, task_id |-> arguments.task_id,
             title |-> Get(arguments, "title", None),
             description |-> Get(arguments, "description", None), session |-> session]
      [] handler \in {"complete_task", "delete_task"} ->
            [user_id |-> arguments.user_id, task_id |-> arguments.task_id,
             session |-> session]

\* the outcomes the handler can have when called with the bound arguments a
handler_outcomes(handler, db, a, h) ==
    CASE handler = "add_task" ->
            {add_task(db, a.user_id, a.title, a.description, a.session, h)}
      [] handler = "list_tasks" ->
            list_tasks(db, a.user_id, a.status, a.session)
      [] handler = "complete_task" ->
            {complete_task(db, a.user_id, a.task_id, a.session)}
      [] handler = "update_task" ->
            {update_task(db, a.user_id, a.task_id, a.title, a.description, a.session)}
      [] handler = "delete_task" ->
            {delete_task(db, a.user_id, a.task_id, a.session)}

Call(name, arguments, outcome, result) ==
    [name |-> name, arguments |-> arguments, outcome |-> outcome, result |-> result]

NoCall == Call("", None, "none", None)

\* if name not in self.tool_handlers: raise ValueError(f"Tool '{name}' not found")
tool_not_found(name, arguments) ==
    Call(name, arguments, "raised",
         [type |-> "ValueError",
          message |-> Text("Tool '{name}' not found", <<[s |-> name]>>)])

\* call_tool without the except clause: the exception reaches the caller
handler_raised_uncaught(name, arguments, e) ==
    Call(name, arguments, "raised",
         [type |-> e, message |-> Text("{str(e)}", <<[s |-> e]>>)])

\* except Exception as e: return {"content": [...], "isError": True}
handler_raised(name, arguments, e) ==
    Call(name, arguments, "returned",
         [content |-> TextContent(Text("Error calling tool: {str(e)}", <<[s |-> e]>>)),
          isError |-> TRUE])

\* the handler's except clause for an exception that is not a ValueError
failed_to(handler) ==
    CASE handler = "add_task" -> "Failed to create task: {str(e)}"
      [] handler = "list_tasks" -> "Failed to list tasks: {str(e)}"
      [] handler = "complete_task" -> "Failed to toggle task: {str(e)}"
      [] handler = "update_task" -> "Failed to update task: {str(e)}"
      [] handler = "delete_task" -> "Failed to delete task: {str(e)}"

unexpected_error(handler) == create_error_response(DatabaseError(failed_to(handler)))

is_validation_error(env) == env.isError /\ env.content[1].text[1] = "{pydantic errors}"

\* The handler run with a synchronous Session, r being its outcome with an
\* AsyncSession: session.commit() and session.execute() do their work and
\* return something that is not awaitable, so that the await raises TypeError.
\* add_task has added and committed the row by then; the other handlers
\* raise at the select.
in_sync_session(handler, db, r) ==
    IF is_validation_error(r.env)
    THEN r
    ELSE IF handler = "add_task"
    THEN Outcome(unexpected_error(handler), r.rows, r.db)
    ELSE Outcome(unexpected_error(handler), <<>>, db)

\* the outcomes of the handler for the session object it is given: none
\* (a.session false), an AsyncSession, or a synchronous Session (sync)
session_outcomes(handler, db, a, sync, h) ==
    IF a.session /\ sync
    THEN {in_sync_session(handler, db, r) : r \in handler_outcomes(handler, db, a, h)}
    ELSE handler_outcomes(handler, db, a, h)

\* what call_tool gives its caller, with the handler outcome behind it
call_tool_results(handlers, db, name, arguments, session, sync, h) ==
    IF name \notin DOMAIN handlers
    THEN {[call |-> tool_not_found(name, arguments), ran |-> None]}
    ELSE LET handler == handlers[name]
         IN  IF Binds(handler, arguments)
             THEN LET a == BoundArguments(handler, arguments, session)
                  IN  {[call |-> Call(name, arguments, "returned", r.env),
                        ran |-> Some([handler |-> handler, a |-> a, r |-> r])] :
                          r \in session_outcomes(handler, db, a, sync, h)}
             ELSE {[call |-> handler_raised(name, arguments, "TypeError"), ran |-> None]}

\* the effect of a call of call_tool on the server and the storage
calls_tool(c) ==
    /\ call' = c.call
    /\ IF c.ran = None
       THEN UNCHANGED <<storeVars, now, last>>
       ELSE Returns(c.ran.some.handler, c.ran.some.a, c.ran.some.r)
    /\ UNCHANGED <<tools, tool_handlers, auth, chatVars, cliVars, raceVars>>

call_tool(name, arguments, session, h) ==
    \E c \in call_tool_results(tool_handlers, database, name, arguments, session, FALSE, h) :
        calls_tool(c)

----------------------------------------------------------------------------
(* mcpserver/auth.py *)

\* A header value is None or a Python str; a str is modelled as the sequence of
\* its pieces, a piece being a run of whitespace or a maximal run of
\* non-whitespace characters.
NoHeader == [present |-> FALSE, pieces |-> <<>>]
Header(pieces) == [present |-> TRUE, pieces |-> pieces]
\* not auth_header
falsy_header(auth_header) == ~auth_header.present \/ auth_header.pieces = <<>>
Space == [ws |-> TRUE]
\* a word that is not a token: its spelling and its lower-cased spelling
Scheme(w, lw) == [word |-> w, lower |-> lw]
\* a word that is an encoded token: what jwt.decode makes of it
Jwt(verdict, claims) == [jwt |-> verdict, claims |-> claims]

is_space(piece) == "ws" \in DOMAIN piece

\* auth_header.split()
split(header) == SelectSeq(header.pieces, LAMBDA piece : ~is_space(piece))

\* a comparison of the scheme that keeps the case
lower_unchanged(word) == IF "word" \in DOMAIN word THEN word.word ELSE "{token}"

\* word.lower(); an encoded token never spells "bearer"
lower(word) == IF "lower" \in DOMAIN word THEN word.lower ELSE "{token}"

Raise(type, message) == [raised |-> TRUE, type |-> type, message |-> message]
Return(value) == [raised |-> FALSE, value |-> value]

extract_token_from_header(auth_header) ==
    IF falsy_header(auth_header)
    THEN Raise("ValueError", "Authorization header is required")
    ELSE LET parts == split(auth_header)
         IN  IF Len(parts) # 2 \/ lower(parts[1]) # "bearer"
             THEN Raise("ValueError",
                        "Invalid Authorization header format. Expected: Bearer <token>")
             ELSE Return(parts[2])

\* jwt.decode(token, secret, algorithms=["HS256"]) and the except clauses around it
verify_jwt_token(token) ==
    IF "jwt" \notin DOMAIN token
    THEN Raise("ValueError", "Invalid token: {str(e)}")
    ELSE CASE token.jwt = "valid" -> Return(token.claims)
           [] token.jwt = "expired" -> Raise("ValueError", "Token has expired")
           [] token.jwt = "decode_error" -> Raise("ValueError", "Invalid token: {str(e)}")
           [] token.jwt = "invalid_key" -> Raise("ValueError", "Invalid key: {str(e)}")
           [] token.jwt = "invalid_claim" ->
                 Raise("ValueError", "Token verification failed: {str(e)}")

extract_user_id_from_token(token) ==
    LET payload == verify_jwt_token(token)
    IN  IF payload.raised THEN payload
        ELSE IF "sub" \notin DOMAIN payload.value \/ payload.value.sub = ""
        THEN Raise("ValueError", "Token does not contain user ID (sub claim)")
        ELSE Return(payload.value.sub)

\* a direct call of extract_token_from_header
extract_token(auth_header) ==
    /\ auth' = [outcome |-> "extracted", header |-> auth_header,
                result |-> extract_token_from_header(auth_header)]
    /\ UNCHANGED <<storeVars, now, last, tools, tool_handlers, call, restVars>>

----------------------------------------------------------------------------
(* mcpserver/middleware.py *)

\* the result of JWTMiddleware.validate_request for a request whose
\* Authorization header (under any spelling of the key) is auth_header
validate_request_result(auth_header) ==
    IF falsy_header(auth_header)
    THEN Raise("UnauthorizedError", UnauthorizedError("Authorization header required").message)
    ELSE LET token == extract_token_from_header(auth_header)
         IN  IF token.raised
             THEN Raise("UnauthorizedError", UnauthorizedError(token.message).message)
             ELSE LET user_id == extract_user_id_from_token(token.value)
                  IN  IF user_id.raised
                      THEN Raise("UnauthorizedError", UnauthorizedError(user_id.message).message)
                      ELSE Return(user_id.value)

NoAuth == [outcome |-> "none"]

validate_request(auth_header) ==
    /\ auth' = [outcome |-> "done", header |-> auth_header,
                result |-> validate_request_result(auth_header)]
    /\ UNCHANGED <<storeVars, now, last, tools, tool_handlers, call, restVars>>

----------------------------------------------------------------------------
(* src/models/conversation.py, src/models/message.py, src/schemas/chat.py *)

MaxMessageLen == 4000
DefaultLimit == 50

\* the value uuid4() gives the n-th Conversation row as its id
ConversationId(n) == [uuid |-> n]
\* a path segment uuid.UUID() rejects
NotAUuid == [uuid |-> 0]
\* the value uuid4() gives the n-th Message row as its id
MessageId(n) == [uuid |-> n]

Conversation(id, user_id, t) ==
    [id |-> id, user_id |-> user_id, created_at |-> t, updated_at |-> t]

Message(id, user_id, conversation_id, role, content, t) ==
    [id |-> id, user_id |-> user_id, conversation_id |-> conversation_id,
     role |-> role, content |-> content, created_at |-> t]

\* ChatRequest accepts the body
ChatRequest(request) ==
    /\ request.conversation_id # None => request.conversation_id.some.uuid > 0
    /\ request.message.len >= 1
    /\ request.message.len <= MaxMessageLen

ChatResponse(conversation_id, message, created_at) ==
    [status_code |-> 200, conversation_id |-> conversation_id, message |-> message,
     role |-> "assistant", created_at |-> created_at]

MessageSchema(msg) ==
    [id |-> msg.id, role |-> msg.role, content |-> msg.content, created_at |-> msg.created_at]

ConversationSummary(conv) ==
    [id |-> conv.id, created_at |-> conv.created_at, updated_at |-> conv.updated_at]

ConversationList(page, total, limit, offset) ==
    [status_code |-> 200, conversations |-> page, total |-> total,
     limit |-> limit, offset |-> offset]

ConversationDetail(conversation, msgs) ==
    [status_code |-> 200, id |-> conversation.id, created_at |-> conversation.created_at,
     updated_at |-> conversation.updated_at, messages |-> msgs]

HTTPException(status_code, detail) == [status_code |-> status_code, detail |-> detail]

\* the 422 FastAPI answers when the body does not validate
RequestValidationError == [status_code |-> 422]

----------------------------------------------------------------------------
(* src/routers/chat.py *)

\* the conversation and message tables and the clock read by datetime.utcnow()
ChatDatabase(convs, msgs, t) == [conversations |-> convs, messages |-> msgs, now |-> t]

\* what an endpoint leaves behind: its HTTP response and the tables after it
Answer(db, response) == [db |-> db, response |-> response]

user_id_mismatch == HTTPException(403, "User ID in path does not match authenticated user")

\* one 404 for the conversation that exists and belongs to somebody else
conversation_forbidden(db, conversation_id, user_id) ==
    IF \E i \in 1..Len(db.conversations) : db.conversations[i].id = conversation_id
    THEN HTTPException(403, "Conversation belongs to another user")
    ELSE HTTPException(404, "Conversation not found or access denied")

conversation_not_found(db, conversation_id, user_id) ==
    HTTPException(404, "Conversation not found or access denied")

\* the placeholder reply, f"I received: {request.message}"
ai_response_content(message) == Str(12 + message.len, "I received: " \o message.tag)

\* the user message stored with the assistant's role
user_message_as_assistant(id, user_id, conversation_id, request, t) ==
    Message(id, user_id, conversation_id, "assistant", request.message, t)

user_message(id, user_id, conversation_id, request, t) ==
    Message(id, user_id, conversation_id, "user", request.message, t)

\* session.get(Conversation, conversation_id): the row's position, if any
session_get_conversation(db, conversation_id) ==
    LET found == {i \in 1..Len(db.conversations) : db.conversations[i].id = conversation_id}
    IN  IF found = {} THEN None ELSE Some(CHOOSE i \in found : TRUE)

\* POST /api/{user_id}/chat; elapsed is the time that passes between the
\* construction of the user message and that of the assistant message.
\* The reply is the placeholder: no agent is called.
send_chat_message(db, user_id, request, authenticated_user_id, elapsed) ==
    IF ~ChatRequest(request)
    THEN Answer(db, RequestValidationError)
    ELSE IF authenticated_user_id # user_id
    THEN Answer(db, user_id_mismatch)
    ELSE LET found == IF request.conversation_id = None
                      THEN None
                      ELSE session_get_conversation(db, request.conversation_id.some)
         IN  IF /\ request.conversation_id # None
                /\ \/ found = None
                   \/ db.conversations[found.some].user_id # user_id
             THEN Answer(db, conversation_not_found(db, request.conversation_id.some, user_id))
             ELSE LET n == IF request.conversation_id = None
                           THEN Len(db.conversations) + 1
                           ELSE found.some
                      convs == IF request.conversation_id = None
                               THEN Append(db.conversations,
                                           Conversation(ConversationId(n), user_id, db.now))
                               ELSE db.conversations
                      m == Len(db.messages)
                      t == db.now + elapsed
                      content == ai_response_content(request.message)
                      user_msg == user_message(MessageId(m + 1), user_id, convs[n].id,
                                               request, db.now)
                      assistant_msg == Message(MessageId(m + 2), user_id, convs[n].id,
                                               "assistant", content, t)
                  IN  Answer(ChatDatabase([convs EXCEPT ![n].updated_at = t],
                                          db.messages \o <<user_msg, assistant_msg>>, t),
                             ChatResponse(convs[n].id, content, t))

\* the orders ORDER BY updated_at DESC admits for the selected conversations
order_by_updated_at_desc(db, ids) ==
    LET n == Cardinality(ids)
    IN  {s \in [1..n -> ids] :
            /\ \A i, j \in 1..n : i # j => s[i] # s[j]
            /\ \A i, j \in 1..n :
                  i < j => db.conversations[s[i]].updated_at >= db.conversations[s[j]].updated_at}

\* the orders an ascending sort on created_at admits for the selected messages
order_by_created_at_asc(db, ids) ==
    LET n == Cardinality(ids)
    IN  {s \in [1..n -> ids] :
            /\ \A i, j \in 1..n : i # j => s[i] # s[j]
            /\ \A i, j \in 1..n :
                  i < j => db.messages[s[i]].created_at <= db.messages[s[j]].created_at}

\* rows[offset+1 .. offset+limit] of a result
limit_offset(rows, limit, offset) ==
    SubSeq(rows, offset + 1, IF offset + limit < Len(rows) THEN offset + limit ELSE Len(rows))

select_conversations(db, user_id) ==
    {i \in 1..Len(db.conversations) : db.conversations[i].user_id = user_id}

\* GET /api/{user_id}/conversations
list_conversations(db, user_id, authenticated_user_id, limit, offset) ==
    IF authenticated_user_id # user_id
    THEN {Answer(db, user_id_mismatch)}
    ELSE LET total == Cardinality(select_conversations(db, user_id))
         IN  {Answer(db, ConversationList(
                            [k \in 1..Len(limit_offset(s, limit, offset)) |->
                                ConversationSummary(db.conversations[limit_offset(s, limit, offset)[k]])],
                            total, limit, offset)) :
                 s \in order_by_updated_at_desc(db, select_conversations(db, user_id))}

\* GET /api/{user_id}/conversations/{conversation_id}
get_conversation_detail(db, user_id, conversation_id, authenticated_user_id) ==
    IF authenticated_user_id # user_id
    THEN {Answer(db, user_id_mismatch)}
    ELSE IF conversation_id = NotAUuid
    THEN {Answer(db, HTTPException(404, "Conversation not found or access denied"))}
    ELSE LET found == {i \in 1..Len(db.conversations) :
                          /\ db.conversations[i].id = conversation_id
                          /\ db.conversations[i].user_id = user_id}
         IN  IF found = {}
             THEN {Answer(db, HTTPException(404, "Conversation not found or access denied"))}
             ELSE LET conversation == db.conversations[CHOOSE i \in found : TRUE]
                      ids == {k \in 1..Len(db.messages) :
                                 db.messages[k].conversation_id = conversation.id}
                  IN  {Answer(db, ConversationDetail(conversation,
                                     [k \in 1..Len(s) |-> MessageSchema(db.messages[s[k]])])) :
                          s \in order_by_created_at_asc(db, ids)}

----------------------------------------------------------------------------
(* src/crud/chat.py *)

\* SELECT ... ORDER BY created_at ASC LIMIT limit
get_messages(db, conversation_id, user_id, limit) ==
    LET ids == {k \in 1..Len(db.messages) :
                   /\ db.messages[k].conversation_id = conversation_id
                   /\ db.messages[k].user_id = user_id}
    IN  {[k \in 1..Len(limit_offset(s, limit, 0)) |-> db.messages[limit_offset(s, limit, 0)[k]]] :
            s \in order_by_created_at_asc(db, ids)}

\* a call of a chat endpoint or crud function: the tables it found and what
\* it returned
ChatCall(op, args, before, response) ==
    [op |-> op, args |-> args, before |-> before, response |-> response]
NoChat == [op |-> "none"]

----------------------------------------------------------------------------
(* phase-1-cli-todo/src/models/task.py and task_list.py *)

MaxCliDescLen == 500

\* a title that is empty or only whitespace has the tag " " or length 0
blank(title) == title.len = 0 \/ title.tag = " "

\* Task(...) passes __post_init__
CliTaskValid(title, description) ==
    /\ ~blank(title)
    /\ ~(description # None /\ description.len > 0 /\ description.len > MaxCliDescLen)

CliTask(id, title, description) ==
    [id |-> id, title |-> title, description |-> description, completed |-> FALSE]

TaskList(ts, n) == [tasks |-> ts, next_id |-> n]

\* what a method leaves behind: the list after it and what the caller gets
Returned(tl, value) == [list |-> tl, result |-> [value |-> value]]
Raised(tl, exception) == [list |-> tl, result |-> [raised |-> exception]]

\* the position of the first task with that id; 0 stands for None
get_task_by_id(tl, task_id) ==
    IF \E k \in 1..Len(tl.tasks) : tl.tasks[k].id = task_id
    THEN CHOOSE k \in 1..Len(tl.tasks) :
            /\ tl.tasks[k].id = task_id
            /\ \A j \in 1..(k - 1) : tl.tasks[j].id # task_id
    ELSE 0

\* add_task numbering the task by the length of the list
TaskList_add_task_by_length(tl, title, description) ==
    IF ~CliTaskValid(title, description)
    THEN Raised(tl, "ValueError")
    ELSE Returned(TaskList(Append(tl.tasks, CliTask(Len(tl.tasks) + 1, title, description)),
                           Len(tl.tasks) + 2),
                  Len(tl.tasks) + 1)

TaskList_add_task(tl, title, description) ==
    IF ~CliTaskValid(title, description)
    THEN Raised(tl, "ValueError")
    ELSE Returned(TaskList(Append(tl.tasks, CliTask(tl.next_id, title, description)),
                           tl.next_id + 1),
                  tl.next_id)

TaskList_update_task(tl, task_id, title, description) ==
    LET k == get_task_by_id(tl, task_id)
    IN  IF k = 0
        THEN Returned(tl, FALSE)
        ELSE LET titled == IF title # None
                           THEN [tl.tasks EXCEPT ![k].title = title]
                           ELSE tl.tasks
                 described == IF description # None
                              THEN [titled EXCEPT ![k].description = description]
                              ELSE titled
             IN  Returned(TaskList(described, tl.next_id), TRUE)

\* list.remove(x): the list without its first element equal to x
list_remove(ts, x) ==
    LET k == CHOOSE k \in 1..Len(ts) : ts[k] = x /\ \A j \in 1..(k - 1) : ts[j] # x
    IN  SubSeq(ts, 1, k - 1) \o SubSeq(ts, k + 1, Len(ts))

TaskList_delete_task(tl, task_id) ==
    LET k == get_task_by_id(tl, task_id)
    IN  IF k = 0
        THEN Returned(tl, FALSE)
        ELSE Returned(TaskList(list_remove(tl.tasks, tl.tasks[k]), tl.next_id), TRUE)

TaskList_toggle_task_completion(tl, task_id) ==
    LET k == get_task_by_id(tl, task_id)
    IN  IF k = 0
        THEN Returned(tl, FALSE)
        ELSE Returned(TaskList([tl.tasks EXCEPT ![k].completed = ~tl.tasks[k].completed],
                               tl.next_id), TRUE)

\* a TaskList method call: the list it found and what it returned
CliCall(op, args, before, result) ==
    [op |-> op, args |-> args, before |-> before, result |-> result]
NoCliCall == [op |-> "none"]

----------------------------------------------------------------------------
(* src/agents/todo_agent.py *)

TodoContext(user_id, session) == [user_id |-> user_id, session |-> session]

\* response.get("structuredContent", {})
structured(response) ==
    IF "structuredContent" \in DOMAIN response THEN response.structuredContent ELSE <<>>

\* sc.get(key, default)
sc_get(sc, key, default) == IF key \in DOMAIN sc THEN sc[key] ELSE default

\* "completed" if sc.get("completed") else "marked pending"
complete_task_text(task_id, response) ==
    LET sc == structured(response)
        state == IF "completed" \in DOMAIN sc /\ sc.completed = TRUE
                 THEN "completed" ELSE "marked pending"
    IN  IF response.isError
        THEN response.content[1].text
        ELSE Text("Task '{title}' (ID: {task_id}) {state}.",
                  <<sc_get(sc, "title", task_id), task_id, state>>)

\* what each tool function makes of the response of call_tool
tool_text(op, args, response) ==
    IF op = "complete_task"
    THEN complete_task_text(args.task_id, response)
    ELSE IF response.isError
    THEN response.content[1].text
    ELSE LET sc == structured(response)
         IN  CASE op = "add_task" ->
                    Text("Created task: '{title}' (ID: {task_id})",
                         <<sc_get(sc, "title", args.title), sc_get(sc, "task_id", "?")>>)
               [] op = "list_tasks" ->
                    IF sc_get(sc, "tasks", <<>>) = <<>>
                    THEN Text("You have no tasks.", <<>>)
                    ELSE Text("Your tasks ({total} total):{lines}",
                              <<sc_get(sc, "total", Len(sc.tasks)),
                                [k \in 1..Len(sc.tasks) |->
                                    <<sc.tasks[k].id, sc.tasks[k].title,
                                      IF sc.tasks[k].completed THEN "done" ELSE "pending">>]>>)
               [] op = "update_task" ->
                    Text("Updated task (ID: {task_id}) - new title: '{title}'.",
                         <<args.task_id, sc_get(sc, "title", args.title)>>)
               [] op = "delete_task" ->
                    Text("Deleted task '{title}' (ID: {task_id}).",
                         <<sc_get(sc, "title", args.task_id), args.task_id>>)

\* the arguments a tool function hands to call_tool: the context's user_id
\* and the parameters the LLM supplied
tool_arguments(context, args) == [user_id |-> context.user_id] @@ args

\* a call of a tool function: the LLM's parameters, the request context, the
\* task table it found, what call_tool gave and what the function gave back
AgentReply(op, args, context, before, response, result) ==
    [op |-> op, args |-> args, context |-> context, before |-> before,
     response |-> response, result |-> result]

\* a tool function called by the agent runner
tool_function(op, context, args, h) ==
    \E c \in call_tool_results(tool_handlers, database, op, tool_arguments(context, args),
                               TRUE, context.session = "Session", h) :
        /\ calls_tool(c)
        /\ reply' = AgentReply(op, args, context, tasks, c.call,
                               IF c.call.outcome = "raised"
                               THEN [raised |-> c.call.result.type]
                               ELSE [text |-> tool_text(op, args, c.call.result)])

NoReply == [op |-> "none"]

----------------------------------------------------------------------------
(* complete_task, update_task and delete_task suspended at their awaits *)

\* A handler that found its task has changed the loaded object (or marked it
\* for deletion) and waits in `await session.commit()`: r is the outcome the
\* commit leads to if the row is still there.
Suspended(op, args, id, r) == [op |-> op, args |-> args, id |-> id, r |-> r]

\* an invocation that returned
Finished(op, args, id, env) == [op |-> op, args |-> args, id |-> id, env |-> env]

\* the flush of an UPDATE writing the row back although it was deleted
flush_of_deleted_row_inserting(db, q) ==
    Outcome(q.r.env, <<q.id>>,
            [db EXCEPT !.tasks = [i \in DOMAIN db.tasks \cup {q.id} |->
                                    IF i = q.id THEN q.r.db.tasks[q.id] ELSE db.tasks[i]]])

\* the flush of an UPDATE that matches no row raises in session.commit(), and
\* the handler's `except Exception` answers with a DatabaseError envelope
flush_of_deleted_row(db, q) == Outcome(unexpected_error(q.op), <<>>, db)

\* await session.commit() and what follows it, for the suspended invocation q
commit(db, q) ==
    IF q.op = "delete_task"
    THEN Outcome(q.r.env, <<q.id>>,
                 [db EXCEPT !.tasks = [i \in DOMAIN db.tasks \ {q.id} |-> db.tasks[i]]])
    ELSE IF q.id \in DOMAIN db.tasks
    THEN Outcome(q.r.env, <<q.id>>, [db EXCEPT !.tasks[q.id] = q.r.db.tasks[q.id]])
    ELSE flush_of_deleted_row(db, q)

----------------------------------------------------------------------------
(* The server after construction, and the operations callers invoke *)

Init ==
    /\ tasks = <<>>
    /\ uuid_count = 0
    /\ hash_of = <<>>
    /\ now = 0
    /\ issued = {}
    /\ last = NoInvocation
    /\ tools = _register_tools.tools
    /\ tool_handlers = _register_tools.tool_handlers
    /\ call = NoCall
    /\ auth = NoAuth
    /\ conversations = <<>>
    /\ messages = <<>>
    /\ chat = NoChat
    /\ task_list = TaskList(<<>>, 1)
    /\ cli = NoCliCall
    /\ freed = {}
    /\ reply = NoReply
    /\ running = {}
    /\ finished = <<>>

(* Direct invocations of the handlers, as the tool modules export them *)

AddTaskInputs ==
    {<<u, Str(1, "a"), None, TRUE>> : u \in Users}
    \cup {<<"", Str(1, "a"), None, TRUE>>, <<"A", Str(0, ""), None, TRUE>>,
          <<"A", Str(201, "c"), None, TRUE>>, <<"A", Str(1, "a"), Str(1001, "e"), TRUE>>,
          <<"A", Str(1, "a"), None, FALSE>>, <<"", Str(1, "a"), None, FALSE>>}

ListTasksInputs ==
    {<<u, st, TRUE>> : u \in Users, st \in {"all", "pending", "completed", "done"}}
    \cup {<<"", "all", TRUE>>, <<"A", "all", FALSE>>, <<"A", "done", FALSE>>}

TaskIdInputs == UuidPool \cup {PyInt(distinct_hash(1) % HashMod)}

TaskRefInputs ==
    {<<u, t, TRUE>> : u \in Users, t \in TaskIdInputs}
    \cup {<<"", Uuid(1), TRUE>>, <<"A", Uuid(1), FALSE>>, <<"", Uuid(1), FALSE>>}

UpdateTaskInputs ==
    {<<u, t, Str(200, "b"), None, TRUE>> :
        u \in Users, t \in {Uuid(1), PyInt(distinct_hash(1) % HashMod)}}
    \cup {<<"A", Uuid(1), None, None, TRUE>>, <<"A", Uuid(1), Str(201, "c"), None, TRUE>>,
          <<"A", Uuid(1), Str(200, "b"), None, FALSE>>, <<"A", Uuid(1), None, None, FALSE>>}

Args(handler, in) ==
    CASE handler = "add_task" ->
            [user_id |-> in[1], title |-> in[2], description |-> in[3], session |-> in[4]]
      [] handler = "list_tasks" ->
            [user_id |-> in[1], status |-> in[2], session |-> in[3]]
      [] handler = "update_task" ->
            [user_id |-> in[1], task_id |-> in[2], title |-> in[3],
             description |-> in[4], session |-> in[5]]
      [] handler \in {"complete_task", "delete_task"} ->
            [user_id |-> in[1], task_id |-> in[2], session |-> in[3]]

\* one direct invocation of a handler
Invoke(handler, in, h) ==
    \E r \in handler_outcomes(handler, database, Args(handler, in), h) :
        /\ Returns(handler, Args(handler, in), r)
        /\ UNCHANGED <<serverVars, agentVars>>

\* only add_task evaluates hash() on a new id
NoHash == 0

AddTask == \E in \in AddTaskInputs : Invoke("add_task", in, distinct_hash(uuid_count + 1))

ListTasks == \E in \in ListTasksInputs : Invoke("list_tasks", in, NoHash)

CompleteTask == \E in \in TaskRefInputs : Invoke("complete_task", in, NoHash)

UpdateTask == \E in \in UpdateTaskInputs : Invoke("update_task", in, NoHash)

DeleteTask == \E in \in TaskRefInputs : Invoke("delete_task", in, NoHash)

Next == AddTask \/ ListTasks \/ CompleteTask \/ UpdateTask \/ DeleteTask

Spec == Init /\ [][Next]_vars

----------------------------------------------------------------------------
(* The identifiers add_task reports, under every value hash() may take *)

AddTaskIdInputs ==
    {<<"A", Str(1, "a"), None, TRUE>>, <<"B", Str(200, "b"), Str(1000, "d"), TRUE>>,
     <<"A", Str(201, "c"), None, TRUE>>, <<"A", Str(0, ""), None, TRUE>>,
     <<"A", Str(1, "a"), Str(1001, "e"), TRUE>>, <<"", Str(1, "a"), None, TRUE>>}

ReportedIdInputs ==
    {<<u, t, TRUE>> : u \in Users, t \in {Uuid(1)} \cup {PyInt(h % HashMod) : h \in HashVals}}

AddTaskAnyHash == \E in \in AddTaskIdInputs, h \in HashVals : Invoke("add_task", in, h)

ListPending == \E u \in Users : Invoke("list_tasks", <<u, "pending", TRUE>>, NoHash)

CompleteReported == \E in \in ReportedIdInputs : Invoke("complete_task", in, NoHash)

DeleteReported == \E in \in ReportedIdInputs : Invoke("delete_task", in, NoHash)

ListOwned == \E u \in Users : Invoke("list_tasks", <<u, "all", TRUE>>, NoHash)

NextIds == AddTaskAnyHash \/ ListPending \/ ListOwned \/ CompleteReported \/ DeleteReported

SpecIds == Init /\ [][NextIds]_vars

----------------------------------------------------------------------------
(* One caller's tasks while the clock advances *)

\* time passes between two invocations
Tick ==
    /\ now < MaxClock
    /\ now' = now + 1
    /\ UNCHANGED <<storeVars, last, serverVars, restVars>>

ClockAddTask ==
    Invoke("add_task", <<"A", Str(1, "a"), None, TRUE>>, distinct_hash(uuid_count + 1))

ClockListTasks == Invoke("list_tasks", <<"A", "all", TRUE>>, NoHash)

ClockCompleteTask ==
    \E t \in {Uuid(1), Uuid(2)} : Invoke("complete_task", <<"A", t, TRUE>>, NoHash)

ClockUpdateTask ==
    \E in \in {<<"A", Uuid(1), Str(200, "b"), None, TRUE>>,
               <<"A", Uuid(1), None, Str(1000, "d"), TRUE>>,
               <<"A", Uuid(1), None, None, TRUE>>} :
        Invoke("update_task", in, NoHash)

ClockDeleteTask == Invoke("delete_task", <<"A", Uuid(1), TRUE>>, NoHash)

NextClock ==
    \/ Tick \/ ClockAddTask \/ ClockListTasks \/ ClockCompleteTask
    \/ ClockUpdateTask \/ ClockDeleteTask

SpecClock == Init /\ [][NextClock]_vars

----------------------------------------------------------------------------
(* The authentication functions on header values of a few pieces *)

Words ==
    {Scheme("Bearer", "bearer"), Scheme("BEARER", "bearer"), Scheme("bearer", "bearer"),
     Scheme("Basic", "basic"), Scheme("abc", "abc"),
     Jwt("valid", [sub |-> "A"]), Jwt("valid", [sub |-> ""]), Jwt("valid", [name |-> "A"]),
     Jwt("expired", [sub |-> "A"]), Jwt("decode_error", [sub |-> "A"]),
     Jwt("invalid_key", [sub |-> "A"]), Jwt("invalid_claim", [sub |-> "A"])}

\* the strings of at most MaxPieces pieces: runs of whitespace and words alternate
Strings ==
    UNION {{s \in [1..n -> Words \cup {Space}] :
               \A i \in 1..(n - 1) : is_space(s[i]) # is_space(s[i + 1])} : n \in 0..MaxPieces}

HeaderInputs == {NoHeader} \cup {Header(s) : s \in Strings}

ExtractToken == \E auth_header \in HeaderInputs : extract_token(auth_header)

ValidateHeader == \E auth_header \in HeaderInputs : validate_request(auth_header)

NextAuth == ExtractToken \/ ValidateHeader

SpecAuth == Init /\ [][NextAuth]_vars

----------------------------------------------------------------------------
(* The server: registration, dispatch and the middleware *)

\* a name and the handler registered under it
RegisterInputs ==
    {<<"list_tasks", "list_tasks">>, <<"delete_task", "delete_task">>,
     <<"add_task", "list_tasks">>}

EmptyDict == <<>>

CallInputs ==
    {<<"non_existent_tool", EmptyDict, TRUE>>,
     <<"non_existent_tool", [user_id |-> "A", title |-> Str(1, "a")], TRUE>>,
     <<"add_task", [user_id |-> "A", title |-> Str(1, "a")], TRUE>>,
     <<"add_task", [user_id |-> "B", title |-> Str(1, "a")], TRUE>>,
     <<"add_task", [user_id |-> "A", title |-> Str(1, "a")], FALSE>>,
     <<"add_task", [user_id |-> "A", title |-> Str(0, "")], TRUE>>,
     <<"add_task", [user_id |-> "A"], TRUE>>,
     <<"add_task", [user_id |-> "A", title |-> Str(1, "a"), priority |-> Str(1, "p")], TRUE>>,
     <<"add_task", [user_id |-> "A", title |-> Str(1, "a"), session |-> Str(1, "s")], TRUE>>,
     <<"list_tasks", [user_id |-> "A"], TRUE>>,
     <<"list_tasks", [user_id |-> "A", status |-> "done"], TRUE>>,
     <<"list_tasks", [user_id |-> "A", title |-> Str(1, "a")], TRUE>>,
     <<"delete_task", [user_id |-> "A", task_id |-> Uuid(1)], TRUE>>,
     <<"delete_task", [user_id |-> "B", task_id |-> Uuid(1)], TRUE>>,
     <<"delete_task", [user_id |-> "A"], TRUE>>}

RequestInputs ==
    {NoHeader,
     Header(<<Scheme("Bearer", "bearer"), Space, Jwt("valid", [sub |-> "A"])>>),
     Header(<<Scheme("Bearer", "bearer"), Space, Jwt("expired", [sub |-> "A"])>>)}

RegisterTool ==
    \E in \in RegisterInputs :
        register_tool(in[1], ToolDescription(in[2]), ToolSchema(in[2]), in[2])

CallTool ==
    \E in \in CallInputs :
        /\ call_tool(in[1], in[2], in[3], distinct_hash(uuid_count + 1))
        /\ UNCHANGED agentVars

ValidateRequest == \E auth_header \in RequestInputs : validate_request(auth_header)

NextServer == RegisterTool \/ CallTool \/ ValidateRequest

SpecServer == Init /\ [][NextServer]_vars

----------------------------------------------------------------------------
(* The chat endpoints and the message history *)

\* rows the message table may hold
MaxMessages == 4

\* path user and authenticated user of a request
ChatUsers == {<<"A", "A">>, <<"B", "B">>, <<"A", "B">>}

\* at most MaxMessages \div 2 conversations exist: the last id is never stored
ConversationIds == {ConversationId(n) : n \in 1..(MaxMessages \div 2) + 1}

\* the agent column is the state of the LLM provider while the request runs
SendInputs ==
    {[user_id |-> u, authenticated_user_id |-> u,
      request |-> [conversation_id |-> c, message |-> Str(1, "a")], agent |-> "ok"] :
        u \in Users, c \in {None} \cup {Some(x) : x \in ConversationIds}}
    \cup {[user_id |-> "A", authenticated_user_id |-> "A",
           request |-> [conversation_id |-> c, message |-> Str(1, "a")], agent |-> "fails"] :
              c \in {None, Some(ConversationId(1))}}
    \cup {[user_id |-> "A", authenticated_user_id |-> "B",
           request |-> [conversation_id |-> None, message |-> Str(1, "a")], agent |-> "ok"]}
    \cup {[user_id |-> "A", authenticated_user_id |-> "A",
           request |-> [conversation_id |-> None, message |-> m], agent |-> "ok"] :
              m \in {Str(0, ""), Str(MaxMessageLen + 1, "a")}}
    \cup {[user_id |-> "A", authenticated_user_id |-> "A",
           request |-> [conversation_id |-> Some(NotAUuid), message |-> Str(1, "a")],
           agent |-> "ok"]}

SendChatMessage ==
    \E in \in SendInputs, elapsed \in 0..1 :
        LET before == ChatDatabase(conversations, messages, now)
            r == send_chat_message(before, in.user_id, in.request,
                                   in.authenticated_user_id, elapsed)
        IN  /\ r.db.now <= MaxClock
            /\ Len(r.db.messages) <= MaxMessages
            /\ conversations' = r.db.conversations
            /\ messages' = r.db.messages
            /\ now' = r.db.now
            /\ chat' = ChatCall("send_chat_message", in, before, r.response)
            /\ UNCHANGED <<storeVars, last, serverVars, cliVars, agentVars, raceVars>>

ListConversations ==
    \E u \in ChatUsers, page \in {<<20, 0>>, <<1, 1>>} :
        LET before == ChatDatabase(conversations, messages, now)
        IN  \E r \in list_conversations(before, u[1], u[2], page[1], page[2]) :
                /\ chat' = ChatCall("list_conversations",
                                    [user_id |-> u[1], authenticated_user_id |-> u[2],
                                     limit |-> page[1], offset |-> page[2]],
                                    before, r.response)
                /\ UNCHANGED <<storeVars, now, last, serverVars, conversations, messages,
                             cliVars, agentVars, raceVars>>

\* path user, authenticated user and conversation id of a detail request
DetailInputs ==
    {<<u, u, c>> : u \in Users, c \in {ConversationId(1), ConversationId((MaxMessages \div 2) + 1)}}
    \cup {<<"A", "A", NotAUuid>>, <<"A", "B", ConversationId(1)>>}

GetConversationDetail ==
    \E in \in DetailInputs :
        LET before == ChatDatabase(conversations, messages, now)
        IN  \E r \in get_conversation_detail(before, in[1], in[3], in[2]) :
                /\ chat' = ChatCall("get_conversation_detail",
                                    [user_id |-> in[1], authenticated_user_id |-> in[2],
                                     conversation_id |-> in[3]],
                                    before, r.response)
                /\ UNCHANGED <<storeVars, now, last, serverVars, conversations, messages,
                             cliVars, agentVars, raceVars>>

GetMessages ==
    \E u \in Users, limit \in {2, DefaultLimit} :
        LET before == ChatDatabase(conversations, messages, now)
            c == ConversationId(1)
        IN  \E rows \in get_messages(before, c, u, limit) :
                /\ chat' = ChatCall("get_messages",
                                    [conversation_id |-> c, user_id |-> u, limit |-> limit],
                                    before, rows)
                /\ UNCHANGED <<storeVars, now, last, serverVars, conversations, messages,
                             cliVars, agentVars, raceVars>>

NextChat ==
    Tick \/ SendChatMessage \/ ListConversations \/ GetConversationDetail \/ GetMessages

SpecChat == Init /\ [][NextChat]_vars

----------------------------------------------------------------------------
(* The task list of the command-line application *)

\* ids the TaskList may hand out
MaxNextId == 3

CliIds == 1..MaxNextId + 1

CliAddInputs ==
    {<<Str(1, "a"), None>>, <<Str(0, ""), None>>, <<Str(1, " "), None>>,
     <<Str(1, "a"), Str(MaxCliDescLen + 1, "d")>>}

CliUpdateInputs == {<<Str(1, "b"), None>>, <<None, Str(1, "d")>>, <<None, None>>}

Calls(op, args, r) ==
    /\ task_list' = r.list
    /\ cli' = CliCall(op, args, task_list, r.result)
    /\ freed' = IF op = "delete_task" /\ r.result.value
                THEN freed \cup {args.task_id}
                ELSE freed
    /\ UNCHANGED <<storeVars, now, last, serverVars, chatVars, agentVars, raceVars>>

CliAddTask ==
    \E in \in CliAddInputs :
        /\ task_list.next_id <= MaxNextId
        /\ Calls("add_task", [title |-> in[1], description |-> in[2]],
                 TaskList_add_task(task_list, in[1], in[2]))

CliUpdateTask ==
    \E id \in CliIds, in \in CliUpdateInputs :
        Calls("update_task", [task_id |-> id, title |-> in[1], description |-> in[2]],
              TaskList_update_task(task_list, id, in[1], in[2]))

CliDeleteTask ==
    \E id \in CliIds :
        Calls("delete_task", [task_id |-> id], TaskList_delete_task(task_list, id))

CliToggleTask ==
    \E id \in CliIds :
        Calls("toggle_task_completion", [task_id |-> id],
              TaskList_toggle_task_completion(task_list, id))

NextCli == CliAddTask \/ CliUpdateTask \/ CliDeleteTask \/ CliToggleTask

SpecCli == Init /\ [][NextCli]_vars

----------------------------------------------------------------------------
(* The tool functions of the agent, called on the shared server *)

\* user A with an AsyncSession, user A with the synchronous Session the
\* TodoContext dataclass declares, user B with an AsyncSession
Contexts ==
    {TodoContext("A", "AsyncSession"), TodoContext("A", "Session"),
     TodoContext("B", "AsyncSession")}

\* the tools the constructor leaves out, in the order they get registered
RestOfTools == <<"list_tasks", "complete_task", "update_task", "delete_task">>

AgentRegisterTool ==
    \E k \in 1..Len(RestOfTools) :
        /\ RestOfTools[k] \notin DOMAIN tool_handlers
        /\ \A j \in 1..(k - 1) : RestOfTools[j] \in DOMAIN tool_handlers
        /\ register_tool(RestOfTools[k], ToolDescription(RestOfTools[k]),
                         ToolSchema(RestOfTools[k]), RestOfTools[k])

AgentTaskIds == {Uuid(1), PyInt(distinct_hash(1) % HashMod)}

AgentAddTask ==
    \E context \in Contexts, title \in {Str(1, "a"), Str(0, "")} :
        tool_function("add_task", context, [title |-> title, description |-> None],
                      distinct_hash(uuid_count + 1))

AgentListTasks ==
    \E context \in Contexts :
        tool_function("list_tasks", context, [status |-> "all"], NoHash)

AgentCompleteTask ==
    \E context \in Contexts, task_id \in AgentTaskIds :
        tool_function("complete_task", context, [task_id |-> task_id], NoHash)

AgentUpdateTask ==
    \E context \in Contexts, title \in {Str(1, "b"), None} :
        tool_function("update_task", context,
                      [task_id |-> Uuid(1), title |-> title, description |-> None], NoHash)

AgentDeleteTask ==
    \E context \in Contexts :
        tool_function("delete_task", context, [task_id |-> Uuid(1)], NoHash)

NextAgent ==
    \/ AgentRegisterTool
    \/ AgentAddTask
    \/ AgentListTasks
    \/ AgentCompleteTask
    \/ AgentUpdateTask
    \/ AgentDeleteTask

SpecAgent == Init /\ [][NextAgent]_vars

----------------------------------------------------------------------------
(* delete_task running concurrently with update_task or complete_task *)

\* invocations begun in one behaviour
MaxInvocations == 3

RaceInputs ==
    {<<"delete_task", <<"A", Uuid(1), TRUE>>>>,
     <<"complete_task", <<"A", Uuid(1), TRUE>>>>,
     <<"update_task", <<"A", Uuid(1), Str(1, "b"), None, TRUE>>>>,
     <<"update_task", <<"B", Uuid(1), Str(1, "b"), None, TRUE>>>>}

\* the handler runs up to its commit: it returns at once when it answers
\* before the select or finds no task, and is suspended otherwise.  At most
\* one delete_task and one of update_task, complete_task are in flight.
Begin ==
    \E in \in RaceInputs :
        LET op == in[1]
            args == Args(op, in[2])
        IN  /\ Len(finished) + Cardinality(running) < MaxInvocations
            /\ \A q \in running : (q.op = "delete_task") # (op = "delete_task")
            /\ \E r \in handler_outcomes(op, database, args, NoHash) :
                  IF r.rows = <<>>
                  THEN /\ finished' = Append(finished,
                                            Finished(op, args, str(args.task_id), r.env))
                       /\ UNCHANGED running
                  ELSE /\ running' = running \cup {Suspended(op, args, r.rows[1], r)}
                       /\ UNCHANGED finished
            /\ UNCHANGED <<storeVars, now, last, serverVars, chatVars, cliVars, agentVars>>

\* a suspended invocation is resumed: its commit runs and it returns
Resume ==
    \E q \in running :
        LET r == commit(database, q)
        IN  /\ tasks' = r.db.tasks
            /\ running' = running \ {q}
            /\ finished' = Append(finished, Finished(q.op, q.args, q.id, r.env))
            /\ UNCHANGED <<uuid_count, hash_of, issued, now, last, serverVars,
                           chatVars, cliVars, agentVars>>

NextRace == ClockAddTask \/ Begin \/ Resume

SpecRace == Init /\ [][NextRace]_vars

----------------------------------------------------------------------------
(* Properties of the handlers *)

payload(inv) == inv.env.structuredContent

text_of(env) == env.content[1].text

is_error_envelope(env) ==
    /\ env.isError = TRUE
    /\ Len(env.content) = 1
    /\ env.content[1].type = "text"
    /\ "structuredContent" \notin DOMAIN env

is_not_found(env, task_id) ==
    /\ is_error_envelope(env)
    /\ text_of(env) = Text("{resource} {identifier} not found", <<[s |-> "Task"], str(task_id)>>)

references_task(inv) == inv.op \in {"complete_task", "update_task", "delete_task"}

\* the invocation passes parameter validation and has a storage handle
well_formed(inv) ==
    /\ inv.args.session
    /\ inv.args.user_id # ""
    /\ inv.op = "update_task" =>
          /\ ~(inv.args.title = None /\ inv.args.description = None)
          /\ inv.args.title # None =>
                inv.args.title.len >= 1 /\ inv.args.title.len <= MaxTitleLen
          /\ inv.args.description # None => inv.args.description.len <= MaxDescLen

\* the stored task of another owner that the invocation's task_id names, if any
foreign_targets(inv, tks) ==
    {id \in DOMAIN tks : id = str(inv.args.task_id) /\ tks[id].user_id # inv.args.user_id}

\* C1: whatever add_task, complete_task, update_task, delete_task and
\* list_tasks calls the two callers made before, every row a successful
\* list_tasks returns to a caller is a stored task owned by that caller, no
\* task ever created under the other identity is among the rows, and the
\* payload holds exactly the items of those rows.
C1_ListIsolation ==
    (last.op = "list_tasks" /\ ~last.env.isError) =>
        /\ \A i \in 1..Len(last.rows) :
              /\ last.rows[i] \in DOMAIN tasks
              /\ tasks[last.rows[i]].user_id = last.args.user_id
        /\ \A r \in issued :
              r.user_id # last.args.user_id =>
                 \A i \in 1..Len(last.rows) : last.rows[i] # r.id
        /\ payload(last).tasks = [i \in 1..Len(last.rows) |-> TaskItem(database, last.rows[i])]

C1_Witness ==
    /\ last.op = "list_tasks"
    /\ ~last.env.isError
    /\ last.args.user_id = "A"
    /\ Len(last.rows) >= 1
    /\ \E id \in DOMAIN tasks : tasks[id].user_id = "B"

\* C2: a well-formed complete_task, update_task or delete_task by caller A
\* naming a stored task of another owner B returns the isError=true
\* "Task <id> not found" envelope and leaves the task table unchanged; no
\* invocation naming another owner's task, well-formed or not, returns a
\* success envelope or changes the table.
C2_CrossOwnerNotFound ==
    [][(references_task(last') /\ foreign_targets(last', tasks) # {}) =>
          /\ last'.env.isError
          /\ tasks' = tasks
          /\ well_formed(last') => is_not_found(last'.env, last'.args.task_id)]_vars

C2_Witness ==
    /\ last.op = "update_task"
    /\ well_formed(last)
    /\ last.args.user_id = "A"
    /\ foreign_targets(last, tasks) # {}
    /\ \E id \in foreign_targets(last, tasks) : tasks[id].updated_at = None
    /\ is_not_found(last.env, last.args.task_id)

\* C3: for complete_task, update_task and delete_task, the envelope returned
\* to a caller whose task_id names a task stored under another owner is an
\* envelope the same handler returns for the same arguments on the database
\* with that task removed.
C3_Indistinguishable ==
    [][references_task(last') =>
          \A id \in foreign_targets(last', tasks) :
              LET absent == [database EXCEPT
                                !.tasks = [i \in DOMAIN tasks \ {id} |-> tasks[i]]]
              IN  last'.env \in {r.env : r \in handler_outcomes(last'.op, absent,
                                                                 last'.args, NoHash)}]_vars

C3_Witness ==
    /\ last.op = "complete_task"
    /\ well_formed(last)
    /\ last.args.user_id = "B"
    /\ foreign_targets(last, tasks) # {}
    /\ last.env.isError

\* the caller's stored tasks, all of them or those with the given flag
owned(user_id, flags) ==
    {id \in DOMAIN tasks : tasks[id].user_id = user_id /\ tasks[id].completed \in flags}

range(seq) == {seq[i] : i \in 1..Len(seq)}

\* C10: with a non-empty caller identity and a storage handle, list_tasks
\* with status "completed" returns exactly the caller's tasks whose flag is
\* true, with "pending" exactly those whose flag is false, with "all" the
\* union of the two, each once and with count the number of items; any other
\* status returns a validation error envelope and no listing.
C10_StatusFilter ==
    (last.op = "list_tasks" /\ last.args.user_id # "" /\ last.args.session) =>
        IF last.args.status \in {"all", "pending", "completed"}
        THEN /\ ~last.env.isError
             /\ range(last.rows) =
                   CASE last.args.status = "completed" -> owned(last.args.user_id, {TRUE})
                     [] last.args.status = "pending" -> owned(last.args.user_id, {FALSE})
                     [] last.args.status = "all" ->
                           owned(last.args.user_id, {TRUE}) \cup owned(last.args.user_id, {FALSE})
             /\ Len(last.rows) = Cardinality(range(last.rows))
             /\ Len(payload(last).tasks) = Len(last.rows)
             /\ payload(last).count = Len(payload(last).tasks)
             /\ \A i \in 1..Len(last.rows) :
                   payload(last).tasks[i].completed = tasks[last.rows[i]].completed
        ELSE /\ is_error_envelope(last.env)
             /\ text_of(last.env) = ValidationError({"status"}).message
             /\ last.rows = <<>>

C10_Witness ==
    /\ last.op = "list_tasks"
    /\ last.args.status = "completed"
    /\ Len(last.rows) = 1
    /\ owned(last.args.user_id, {FALSE}) # {}

----------------------------------------------------------------------------
(* Properties of the identifiers add_task reports *)

\* the replies of add_task to user_id that carried task_id
reported(user_id, task_id) ==
    {r \in issued : r.user_id = user_id /\ PyInt(r.task_id) = task_id}

\* C5: the task_id a successful add_task reported to a caller identifies the
\* created task for that caller: while the task is stored, complete_task with
\* that task_id succeeds with the status of the flipped flag and delete_task
\* with it succeeds with status "deleted"; once it is deleted, complete_task
\* with it returns the not-found envelope.
C5_ReportedIdIdentifiesTask ==
    [][(last'.op \in {"complete_task", "delete_task"} /\ well_formed(last')) =>
          \A r \in reported(last'.args.user_id, last'.args.task_id) :
              IF r.id \in DOMAIN tasks
              THEN /\ ~last'.env.isError
                   /\ payload(last').status =
                         IF last'.op = "delete_task" THEN "deleted"
                         ELSE IF tasks[r.id].completed THEN "uncompleted" ELSE "completed"
              ELSE (\A q \in reported(last'.args.user_id, last'.args.task_id) :
                        q.id \notin DOMAIN tasks)
                   => is_not_found(last'.env, last'.args.task_id)]_vars

\* C6: every add_task with a non-empty user id, a title of 1..200 characters,
\* a description absent or of at most 1000 characters and a storage handle
\* returns isError=false with a task_id that no earlier successful add_task
\* reported, whether or not that earlier task is still stored.
C6_FreshTaskId ==
    (/\ last.op = "add_task"
     /\ AddTaskParams(last.args.user_id, last.args.title, last.args.description) = {}
     /\ last.args.session) =>
        /\ ~last.env.isError
        /\ \A r \in issued : r.id # last.rows[1] => r.task_id # payload(last).task_id

----------------------------------------------------------------------------
(* Properties of the dispatcher and the registry *)

FiveTools == {"add_task", "list_tasks", "complete_task", "update_task", "delete_task"}

\* C4: no call_tool lookup or handler runs unless the request's
\* validate_request returned an identity, and the user_id the handler is
\* given is that identity.
C4_AuthBeforeDispatch ==
    [][call' # call =>
          /\ auth.outcome = "done"
          /\ ~auth.result.raised
          /\ "user_id" \in DOMAIN call'.arguments =>
                call'.arguments.user_id = auth.result.value]_vars

\* C7: call_tool with a name that is not registered returns an isError=true
\* envelope with a single text item saying the tool was not found; it does not
\* raise, and no handler runs.
C7_UnknownToolEnvelope ==
    [][(call' # call /\ call'.name \notin DOMAIN tool_handlers) =>
          /\ call'.outcome = "returned"
          /\ is_error_envelope(call'.result)
          /\ text_of(call'.result)[1] = "Tool '{name}' not found"
          /\ UNCHANGED <<storeVars, last>>]_vars

\* C8: call_tool on a registered name never raises to its caller; when the
\* arguments do not bind to the handler's parameters (a required one missing,
\* an unknown one, session passed twice) no handler runs and the result is an
\* isError=true envelope with one text item and no structured payload.
C8_DispatchBoundary ==
    [][(call' # call /\ call'.name \in DOMAIN tool_handlers) =>
          /\ call'.outcome = "returned"
          /\ "isError" \in DOMAIN call'.result
          /\ ~Binds(tool_handlers[call'.name], call'.arguments) =>
                /\ is_error_envelope(call'.result)
                /\ UNCHANGED <<storeVars, last>>]_vars

C8_Witness ==
    /\ call.outcome = "returned"
    /\ call.name = "add_task"
    /\ "title" \notin DOMAIN call.arguments
    /\ is_error_envelope(call.result)

\* C9: from construction on, the five tools are keys of the tool-info map and
\* of the handler map, get_tools_list has an entry for each, and the two maps
\* have the same keys.
C9_FiveToolsRegistered ==
    /\ FiveTools \subseteq tool_names(tools)
    /\ FiveTools \subseteq DOMAIN tool_handlers
    /\ \A name \in FiveTools : \E i \in 1..Len(get_tools_list) : get_tools_list[i].name = name
    /\ tool_names(tools) = DOMAIN tool_handlers

----------------------------------------------------------------------------
(* Properties of the effects of the handlers on the stored tasks *)

succeeded(inv, op) == inv.op = op /\ inv.env.isError = FALSE

\* C11: a successful complete_task is on a stored task of the caller, flips
\* its completion flag, and reports status "completed" when the new flag is
\* true and "uncompleted" when it is false; a successful complete_task that
\* directly follows a successful complete_task on the same task leaves the
\* flag at the value it had before the first of the two.
C11_Toggle ==
    [][succeeded(last', "complete_task") =>
          LET id == last'.rows[1]
          IN  /\ id \in DOMAIN tasks
              /\ tasks[id].user_id = last'.args.user_id
              /\ tasks'[id].completed = ~tasks[id].completed
              /\ payload(last').status =
                    IF tasks'[id].completed THEN "completed" ELSE "uncompleted"
              /\ (succeeded(last, "complete_task") /\ last.rows = last'.rows) =>
                    \* the first call reported the flag it left behind
                    tasks'[id].completed = (payload(last).status = "uncompleted")]_vars

C11_Witness ==
    /\ succeeded(last, "complete_task")
    /\ payload(last).status = "uncompleted"
    /\ tasks[last.rows[1]].completed = FALSE
    /\ tasks[last.rows[1]].updated_at # None

\* C12: a successful delete_task removes the stored task; from then on the
\* task's id is never stored again, whatever add_task calls follow; every
\* complete_task, update_task or delete_task naming the task (by its stored id
\* or by the task_id add_task reported for it), by whichever caller, returns an
\* error, the not-found envelope when its arguments are well formed; and no
\* list_tasks returns the task.
C12_HardDelete ==
    [][/\ succeeded(last', "delete_task") =>
             /\ last'.rows[1] \in DOMAIN tasks
             /\ last'.rows[1] \notin DOMAIN tasks'
       /\ \A r \in issued :
             r.id \notin DOMAIN tasks =>
                /\ r.id \notin DOMAIN tasks'
                /\ (/\ references_task(last')
                    /\ (str(last'.args.task_id) = r.id \/ last'.args.task_id = PyInt(r.task_id)))
                   => /\ last'.env.isError
                      /\ well_formed(last') => is_not_found(last'.env, last'.args.task_id)
                /\ succeeded(last', "list_tasks") => r.id \notin range(last'.rows)]_vars

C12_Witness ==
    \E r \in issued :
        /\ r.id \notin DOMAIN tasks
        /\ last.op = "update_task"
        /\ well_formed(last)
        /\ last.args.user_id = r.user_id
        /\ str(last.args.task_id) = r.id
        /\ is_not_found(last.env, last.args.task_id)
        /\ uuid_count = MaxTasks

\* C13: update_task with neither title nor description returns an error
\* envelope, the validation error of the model validator when the user id is
\* non-empty, and leaves the task table unchanged; a successful update_task
\* leaves the stored description unchanged when only title is supplied and the
\* stored title unchanged when only description is supplied, stores each
\* supplied field, and reports status "updated" with the resulting title.
C13_UpdateFrame ==
    [][last'.op = "update_task" =>
          /\ (last'.args.title = None /\ last'.args.description = None) =>
                /\ is_error_envelope(last'.env)
                /\ last'.args.user_id # "" =>
                      text_of(last'.env) = ValidationError({"__root__"}).message
                /\ tasks' = tasks
          /\ succeeded(last', "update_task") =>
                LET id == last'.rows[1]
                IN  /\ tasks'[id].title =
                          IF last'.args.title = None THEN tasks[id].title ELSE last'.args.title
                    /\ tasks'[id].description =
                          IF last'.args.description = None THEN tasks[id].description
                          ELSE last'.args.description
                    /\ payload(last').status = "updated"
                    /\ payload(last').title = tasks'[id].title]_vars

C13_Witness ==
    /\ succeeded(last, "update_task")
    /\ last.args.title = None
    /\ tasks[last.rows[1]].description = last.args.description
    /\ tasks[last.rows[1]].title = Str(200, "b")
    /\ payload(last).title = Str(200, "b")

\* C14: add_task given a storage handle returns an isError=true envelope
\* without a structured payload and stores nothing when the title has length 0
\* or more than 200, the description more than 1000, or the user id is empty;
\* otherwise (titles of 1 and of 200 characters, descriptions of 1000 among
\* them) it succeeds and stores exactly one new task with that title and
\* description.
C14_TitleBounds ==
    [][(last'.op = "add_task" /\ last'.args.session) =>
          IF \/ last'.args.title.len = 0
             \/ last'.args.title.len > 200
             \/ (last'.args.description # None /\ last'.args.description.len > 1000)
             \/ last'.args.user_id = ""
          THEN /\ is_error_envelope(last'.env)
               /\ last'.rows = <<>>
               /\ UNCHANGED storeVars
          ELSE /\ ~last'.env.isError
               /\ last'.rows[1] \notin DOMAIN tasks
               /\ DOMAIN tasks' = DOMAIN tasks \cup {last'.rows[1]}
               /\ tasks'[last'.rows[1]].title = last'.args.title
               /\ tasks'[last'.rows[1]].description = last'.args.description]_vars

C14_Witness ==
    /\ succeeded(last, "add_task")
    /\ last.args.title.len = 200
    /\ last.args.description # None
    /\ last.args.description.len = 1000
    /\ tasks[last.rows[1]].title.len = 200
    /\ \E id \in DOMAIN tasks : tasks[id].title.len = 1

\* C15: when a successful list_tasks with status "all" (the default) or
\* "pending" directly follows a successful add_task by the same user id, the
\* created task is among the returned rows exactly once, and its item carries
\* the title and the description add_task was given and completed = false.
C15_RoundTrip ==
    [][(/\ succeeded(last, "add_task")
        /\ succeeded(last', "list_tasks")
        /\ last'.args.user_id = last.args.user_id
        /\ last'.args.status \in {"all", "pending"}) =>
          /\ Cardinality({i \in 1..Len(last'.rows) : last'.rows[i] = last.rows[1]}) = 1
          /\ Len(payload(last').tasks) = Len(last'.rows)
          /\ \A i \in 1..Len(last'.rows) :
                last'.rows[i] = last.rows[1] =>
                   /\ payload(last').tasks[i].title = last.args.title
                   /\ payload(last').tasks[i].description = last.args.description
                   /\ payload(last').tasks[i].completed = FALSE]_vars

C15_Witness ==
    /\ succeeded(last, "list_tasks")
    /\ last.args.status = "all"
    /\ Len(last.rows) = 2
    /\ \E i \in 1..2 :
          /\ last.rows[i] = Uuid(uuid_count)
          /\ payload(last).tasks[i].description = Str(1000, "d")
          /\ payload(last).tasks[i].title = Str(200, "b")
          /\ payload(last).tasks[i].completed = FALSE

\* C16: in every step a stored task keeps its owner and its creation
\* timestamp; a row changes only by a successful complete_task or update_task
\* on that very row, which stamps its update timestamp; complete_task leaves
\* title and description alone and update_task leaves the completion flag
\* alone; rows appear only by a successful add_task, with no update timestamp,
\* and disappear only by a successful delete_task of that row.
C16_Frame ==
    [][/\ \A id \in DOMAIN tasks \cap DOMAIN tasks' :
             /\ tasks'[id].user_id = tasks[id].user_id
             /\ tasks'[id].created_at = tasks[id].created_at
             /\ tasks'[id] # tasks[id] =>
                   /\ succeeded(last', "complete_task") \/ succeeded(last', "update_task")
                   /\ last'.rows = <<id>>
                   /\ tasks'[id].updated_at = Some(now)
                   /\ last'.op = "complete_task" =>
                         /\ tasks'[id].title = tasks[id].title
                         /\ tasks'[id].description = tasks[id].description
                   /\ last'.op = "update_task" =>
                         /\ tasks'[id].completed = tasks[id].completed
                         /\ last'.args.title = None => tasks'[id].title = tasks[id].title
                         /\ last'.args.description = None =>
                               tasks'[id].description = tasks[id].description
       /\ \A id \in DOMAIN tasks' \ DOMAIN tasks :
             /\ succeeded(last', "add_task")
             /\ last'.rows = <<id>>
             /\ tasks'[id].updated_at = None
             /\ tasks'[id].created_at = now
       /\ \A id \in DOMAIN tasks \ DOMAIN tasks' :
             /\ succeeded(last', "delete_task")
             /\ last'.rows = <<id>>]_vars

C16_Witness ==
    /\ succeeded(last, "update_task")
    /\ \E id1, id2 \in DOMAIN tasks :
          /\ last.rows = <<id1>>
          /\ tasks[id1].created_at = 0
          /\ tasks[id1].updated_at = Some(2)
          /\ tasks[id1].completed = TRUE
          /\ tasks[id2].created_at = 1
          /\ tasks[id2].updated_at = None

----------------------------------------------------------------------------
(* Properties of the authentication functions *)

\* the whitespace-separated tokens of a header value
tokens_of(header) == SelectSeq(header.pieces, LAMBDA piece : "ws" \notin DOMAIN piece)

spells_bearer(word) == "word" \in DOMAIN word /\ word.word \in {"bearer", "Bearer", "BEARER"}

\* C17: extract_token_from_header raises "Authorization header is required"
\* for an absent or empty header; raises the invalid-format error when the
\* header does not have exactly two whitespace-separated tokens or its first
\* token is not "bearer" in some casing; and otherwise returns the second
\* token unchanged.
C17_ExtractToken ==
    auth.outcome = "extracted" =>
        IF ~auth.header.present \/ auth.header.pieces = <<>>
        THEN auth.result = Raise("ValueError", "Authorization header is required")
        ELSE IF Len(tokens_of(auth.header)) # 2 \/ ~spells_bearer(tokens_of(auth.header)[1])
        THEN auth.result =
                Raise("ValueError", "Invalid Authorization header format. Expected: Bearer <token>")
        ELSE auth.result = Return(tokens_of(auth.header)[2])

C17_Witness ==
    /\ auth.outcome = "extracted"
    /\ Len(auth.header.pieces) = 3
    /\ auth.header.pieces[1] = Scheme("BEARER", "bearer")
    /\ auth.result = Return(Jwt("expired", [sub |-> "A"]))

\* C18: validate_request either returns the subject claim of the verified
\* token, or raises UnauthorizedError with one of the messages "Authorization
\* header is required", "Invalid Authorization header format...", "Token has
\* expired", "Invalid token: ...", "Token does not contain user ID (sub
\* claim)".
C18_AuthOutcomes ==
    auth.outcome = "done" =>
        IF auth.result.raised
        THEN /\ auth.result.type = "UnauthorizedError"
             /\ auth.result.message[1] \in
                   {"Authorization header is required",
                    "Invalid Authorization header format. Expected: Bearer <token>",
                    "Token has expired",
                    "Invalid token: {str(e)}",
                    "Token does not contain user ID (sub claim)"}
        ELSE /\ Len(tokens_of(auth.header)) = 2
             /\ auth.result.value = tokens_of(auth.header)[2].claims.sub

----------------------------------------------------------------------------
(* Properties of the envelopes of the handlers *)

\* C19: every envelope a handler returns has exactly one content item, of
\* type text, and a boolean isError, and nothing besides these but
\* structuredContent, which is absent when isError is true and present, with
\* the payload of the operation, when isError is false.
C19_EnvelopeShape ==
    last.op # "none" =>
        /\ {"content", "isError"} \subseteq DOMAIN last.env
        /\ DOMAIN last.env \subseteq {"content", "isError", "structuredContent"}
        /\ Len(last.env.content) = 1
        /\ DOMAIN last.env.content[1] = {"type", "text"}
        /\ last.env.content[1].type = "text"
        /\ last.env.isError \in BOOLEAN
        /\ last.env.isError => "structuredContent" \notin DOMAIN last.env
        /\ ~last.env.isError =>
              /\ "structuredContent" \in DOMAIN last.env
              /\ "status" \in DOMAIN last.env.structuredContent

C19_Witness ==
    /\ last.op = "complete_task"
    /\ well_formed(last)
    /\ last.env.isError
    /\ "structuredContent" \notin DOMAIN last.env
    /\ \E id \in DOMAIN tasks : tasks[id].completed

\* the arguments pass the parameter model of the handler
valid_params(inv) ==
    /\ inv.args.user_id # ""
    /\ inv.op = "add_task" =>
          /\ inv.args.title.len >= 1 /\ inv.args.title.len <= 200
          /\ inv.args.description # None => inv.args.description.len <= 1000
    /\ inv.op = "list_tasks" => inv.args.status \in {"all", "pending", "completed"}
    /\ inv.op = "update_task" =>
          /\ ~(inv.args.title = None /\ inv.args.description = None)
          /\ inv.args.title # None => inv.args.title.len >= 1 /\ inv.args.title.len <= 200
          /\ inv.args.description # None => inv.args.description.len <= 1000

\* C20: a handler called without a storage handle touches no row and leaves
\* the store unchanged; with valid parameters it returns the error envelope
\* "Database session not available", and with invalid parameters the
\* validation error envelope, the parameters being validated first.
C20_NoSession ==
    [][(last'.op # "none" /\ ~last'.args.session) =>
          /\ UNCHANGED storeVars
          /\ last'.rows = <<>>
          /\ is_error_envelope(last'.env)
          /\ IF valid_params(last')
             THEN text_of(last'.env) = Text("Database session not available", <<>>)
             ELSE text_of(last'.env)[1] = "{pydantic errors}"]_vars

C20_Witness ==
    /\ last.op = "delete_task"
    /\ ~last.args.session
    /\ valid_params(last)
    /\ str(last.args.task_id) \in DOMAIN tasks
    /\ tasks[str(last.args.task_id)].user_id = last.args.user_id
    /\ text_of(last.env) = Text("Database session not available", <<>>)

----------------------------------------------------------------------------
(* Properties of the order of a listing *)

\* C21: the rows a successful list_tasks returns are in descending order of
\* created_at, and rows with equal created_at are in the order in which they
\* were inserted.
C21_StableOrder ==
    succeeded(last, "list_tasks") =>
        \A i, j \in 1..Len(last.rows) :
            i < j =>
               /\ tasks[last.rows[i]].created_at >= tasks[last.rows[j]].created_at
               /\ tasks[last.rows[i]].created_at = tasks[last.rows[j]].created_at =>
                     last.rows[i].n < last.rows[j].n

----------------------------------------------------------------------------
(* Properties of the registry *)

\* C22: get_tools_list holds one entry {name, description, inputSchema} per
\* registered name, and the names are the keys of the handler map; a
\* registration of a new name appends its entry after the others, a
\* registration of a name already present replaces its entry in place and its
\* handler, leaving every other entry and handler as it was; and call_tool
\* runs the handler registered last under the name.
C22_Registry ==
    [][/\ (tools' # tools \/ tool_handlers' # tool_handlers) =>
             \E in \in RegisterInputs :
                 LET entry == [name |-> in[1], description |-> ToolDescription(in[2]),
                               inputSchema |-> ToolSchema(in[2])]
                 IN  /\ DOMAIN tool_handlers' = DOMAIN tool_handlers \cup {in[1]}
                     /\ tool_handlers'[in[1]] = in[2]
                     /\ \A n \in DOMAIN tool_handlers \ {in[1]} :
                           tool_handlers'[n] = tool_handlers[n]
                     /\ IF in[1] \in DOMAIN tool_handlers
                        THEN /\ Len(get_tools_list') = Len(get_tools_list)
                             /\ \A i \in 1..Len(get_tools_list) :
                                   get_tools_list'[i] =
                                      IF get_tools_list[i].name = in[1] THEN entry
                                      ELSE get_tools_list[i]
                        ELSE get_tools_list' = Append(get_tools_list, entry)
       /\ \A i, j \in 1..Len(get_tools_list') :
             i # j => get_tools_list'[i].name # get_tools_list'[j].name
       /\ \A i \in 1..Len(get_tools_list') :
             DOMAIN get_tools_list'[i] = {"name", "description", "inputSchema"}
       /\ tool_names(get_tools_list') = DOMAIN tool_handlers'
       /\ (/\ call' # call
           /\ call'.name \in DOMAIN tool_handlers
           /\ Binds(tool_handlers[call'.name], call'.arguments)) =>
             last'.op = tool_handlers[call'.name]]_vars

C22_Witness ==
    /\ Len(get_tools_list) = 3
    /\ get_tools_list[1] = [name |-> "add_task", description |-> ToolDescription("list_tasks"),
                            inputSchema |-> ToolSchema("list_tasks")]
    /\ get_tools_list[2].name = "delete_task"
    /\ get_tools_list[3].name = "list_tasks"
    /\ tool_handlers["add_task"] = "list_tasks"
    /\ call.name = "add_task"
    /\ call.outcome = "returned"
    /\ last.op = "list_tasks"
    /\ succeeded(last, "list_tasks")
    /\ Len(last.rows) = 1

----------------------------------------------------------------------------
(* Properties of the chat endpoints *)

\* the messages of a conversation, in order of insertion
messages_of(msgs, id) == SelectSeq(msgs, LAMBDA m : m.conversation_id = id)

\* the table held a conversation with that id owned by that user
owns_conversation(convs, id, user_id) ==
    \E i \in 1..Len(convs) : convs[i].id = id /\ convs[i].user_id = user_id

\* the table held a conversation with that id owned by somebody else
foreign_conversation(convs, id, user_id) ==
    \E i \in 1..Len(convs) : convs[i].id = id /\ convs[i].user_id # user_id

\* the request is one the endpoint is called with: caller authenticated as
\* the path user, body accepted
admitted(c) ==
    /\ c.args.authenticated_user_id = c.args.user_id
    /\ c.args.request.message.len >= 1
    /\ c.args.request.message.len <= MaxMessageLen
    /\ c.args.request.conversation_id # None => c.args.request.conversation_id.some # NotAUuid

\* the request gets as far as the reply generation
reaches_agent(c) ==
    /\ admitted(c)
    /\ \/ c.args.request.conversation_id = None
       \/ owns_conversation(c.before.conversations,
                            c.args.request.conversation_id.some, c.args.user_id)

\* C23: when the agent / LLM provider fails while a chat request is served,
\* the caller receives 503, the user message of the request is the one
\* message the request leaves in the table, and no assistant message is stored.
C23_ServiceUnavailable ==
    (chat.op = "send_chat_message" /\ chat.args.agent = "fails" /\ reaches_agent(chat)) =>
        /\ chat.response.status_code = 503
        /\ Len(messages) = Len(chat.before.messages) + 1
        /\ SubSeq(messages, 1, Len(chat.before.messages)) = chat.before.messages
        /\ messages[Len(messages)].role = "user"
        /\ messages[Len(messages)].content = chat.args.request.message

ConcealedDetail == "Conversation not found or access denied"

\* C24: send_chat_message and get_conversation_detail answer a conversation
\* id that is absent and one that belongs to another user with the same 404
\* and detail; send_chat_message stores nothing then; list_conversations
\* returns only the caller's conversations and total counts only them.
C24_ConversationIsolation ==
    /\ (/\ chat.op = "send_chat_message"
        /\ admitted(chat)
        /\ chat.args.request.conversation_id # None
        /\ ~owns_conversation(chat.before.conversations,
                              chat.args.request.conversation_id.some, chat.args.user_id))
        => /\ chat.response.status_code = 404
           /\ chat.response.detail = ConcealedDetail
           /\ messages = chat.before.messages
           /\ conversations = chat.before.conversations
    /\ (/\ chat.op = "get_conversation_detail"
        /\ chat.args.authenticated_user_id = chat.args.user_id
        /\ ~owns_conversation(chat.before.conversations,
                              chat.args.conversation_id, chat.args.user_id))
        => /\ chat.response.status_code = 404
           /\ chat.response.detail = ConcealedDetail
    /\ (/\ chat.op = "list_conversations"
        /\ chat.args.authenticated_user_id = chat.args.user_id)
        => /\ chat.response.status_code = 200
           /\ \A k \in 1..Len(chat.response.conversations) :
                 owns_conversation(chat.before.conversations,
                                   chat.response.conversations[k].id, chat.args.user_id)
           /\ chat.response.total =
                 Cardinality({i \in 1..Len(chat.before.conversations) :
                                 chat.before.conversations[i].user_id = chat.args.user_id})

\* a message was sent to a conversation of another user, which holds messages
C24_Witness ==
    /\ chat.op = "send_chat_message"
    /\ admitted(chat)
    /\ chat.args.request.conversation_id # None
    /\ foreign_conversation(chat.before.conversations,
                            chat.args.request.conversation_id.some, chat.args.user_id)
    /\ messages_of(messages, chat.args.request.conversation_id.some) # <<>>
    /\ chat.response.status_code = 404

\* roles alternate user, assistant from the first message on
alternates(msgs) ==
    /\ Len(msgs) % 2 = 0
    /\ \A k \in 1..Len(msgs) :
          msgs[k].role = (IF k % 2 = 1 THEN "user" ELSE "assistant")

\* C25: a successful send_chat_message appends to its conversation a user
\* message holding the request text and then an assistant message, both
\* owned by the caller; a request that fails appends nothing, so that every
\* conversation holds 2n messages alternating user, assistant after n
\* successful requests; without conversation_id the conversation is new and
\* its id differs from all earlier ones.
C25_Exchange ==
    /\ (chat.op = "send_chat_message" /\ chat.response.status_code = 200) =>
          LET c == chat.response.conversation_id
              n == Len(chat.before.messages)
          IN  /\ Len(messages) = n + 2
              /\ SubSeq(messages, 1, n) = chat.before.messages
              /\ messages[n + 1].role = "user"
              /\ messages[n + 1].content = chat.args.request.message
              /\ messages[n + 2].role = "assistant"
              /\ \A k \in {n + 1, n + 2} :
                    /\ messages[k].user_id = chat.args.authenticated_user_id
                    /\ messages[k].conversation_id = c
              /\ Len(messages_of(messages, c)) =
                    Len(messages_of(chat.before.messages, c)) + 2
              /\ IF chat.args.request.conversation_id = None
                 THEN /\ c \notin {chat.before.conversations[i].id :
                                       i \in 1..Len(chat.before.conversations)}
                      /\ Len(conversations) = Len(chat.before.conversations) + 1
                      /\ owns_conversation(conversations, c, chat.args.user_id)
                 ELSE /\ c = chat.args.request.conversation_id.some
                      /\ Len(conversations) = Len(chat.before.conversations)
    /\ (chat.op = "send_chat_message" /\ chat.response.status_code # 200) =>
          messages = chat.before.messages
    /\ \A i \in 1..Len(conversations) :
          alternates(messages_of(messages, conversations[i].id))
    /\ \A i, j \in 1..Len(conversations) :
          i # j => conversations[i].id # conversations[j].id

\* the second successful request on one conversation has been answered
C25_Witness ==
    /\ chat.op = "send_chat_message"
    /\ chat.response.status_code = 200
    /\ chat.args.request.conversation_id # None
    /\ Len(messages_of(messages, chat.response.conversation_id)) = 4

\* the last `limit` entries of a result
most_recent(rows, limit) ==
    SubSeq(rows, IF Len(rows) > limit THEN Len(rows) - limit + 1 ELSE 1, Len(rows))

\* C26: get_messages returns the last `limit` messages of the conversation
\* that belong to the given user, oldest first.
C26_MostRecent ==
    chat.op = "get_messages" =>
        LET ids == {k \in 1..Len(chat.before.messages) :
                       /\ chat.before.messages[k].conversation_id = chat.args.conversation_id
                       /\ chat.before.messages[k].user_id = chat.args.user_id}
        IN  \E s \in order_by_created_at_asc(chat.before, ids) :
                chat.response = [k \in 1..Len(most_recent(s, chat.args.limit)) |->
                                    chat.before.messages[most_recent(s, chat.args.limit)[k]]]

----------------------------------------------------------------------------
(* Properties of the command-line task list *)

stored_ids(tl) == {tl.tasks[k].id : k \in 1..Len(tl.tasks)}

\* C27: the TaskList numbers its tasks 1, 2, 3, ... in order of add_task;
\* stored ids are pairwise distinct and smaller than next_id, an id removed
\* by delete_task is never stored again, and update_task, delete_task and
\* toggle_task_completion on an id that is not stored return False and
\* leave the list as it was.
C27_TaskListIds ==
    /\ \A i, j \in 1..Len(task_list.tasks) :
          i # j => task_list.tasks[i].id # task_list.tasks[j].id
    /\ \A i \in 1..Len(task_list.tasks) :
          /\ task_list.tasks[i].id >= 1
          /\ task_list.tasks[i].id < task_list.next_id
    /\ stored_ids(task_list) \cap freed = {}
    /\ (cli.op = "add_task" /\ cli.result # [raised |-> "ValueError"]) =>
          /\ cli.result.value = Len(cli.before.tasks) + Cardinality(freed) + 1
          /\ task_list.tasks[Len(task_list.tasks)].id = cli.result.value
    /\ (/\ cli.op \in {"update_task", "delete_task", "toggle_task_completion"}
        /\ cli.args.task_id \notin stored_ids(cli.before))
        => /\ cli.result.value = FALSE
           /\ task_list = cli.before

\* a task was added after the first task had been deleted
C27_Witness ==
    /\ cli.op = "add_task"
    /\ 1 \in freed
    /\ cli.result = [value |-> 3]
    /\ Len(task_list.tasks) = 2

----------------------------------------------------------------------------
(* Properties of the handlers called through the agent *)

\* C28: an invocation of add_task, complete_task, update_task or delete_task
\* that returns an isError envelope leaves the task table as it found it: no
\* error envelope is returned for an invocation whose mutation was committed.
C28_ErrorLeavesStorage ==
    (/\ reply.op \in {"add_task", "complete_task", "update_task", "delete_task"}
     /\ reply.response.outcome = "returned"
     /\ reply.response.result.isError)
    => tasks = reply.before

\* C30: the complete_task tool function says "completed" exactly when the
\* handler left the task completed and "marked pending" exactly when it left
\* it pending; every tool function returns the text of an isError envelope
\* unchanged and passes the user_id of the request context to the tool.
C30_AgentReports ==
    /\ (/\ reply.op = "complete_task"
        /\ reply.response.outcome = "returned"
        /\ ~reply.response.result.isError)
        => reply.result.text[2][3] =
              (IF tasks[str(reply.args.task_id)].completed
               THEN "completed" ELSE "marked pending")
    /\ (/\ reply.op # "none"
        /\ reply.response.outcome = "returned"
        /\ reply.response.result.isError)
        => reply.result = [text |-> reply.response.result.content[1].text]
    /\ reply.op # "none" => reply.response.arguments.user_id = reply.context.user_id

----------------------------------------------------------------------------
(* Properties of concurrent invocations *)

\* the envelope has the shape every handler answer has
envelope_shape(env) ==
    /\ {"content", "isError"} \subseteq DOMAIN env
    /\ DOMAIN env \subseteq {"content", "isError", "structuredContent"}
    /\ Len(env.content) = 1
    /\ env.content[1].type = "text"
    /\ env.isError \in BOOLEAN
    /\ env.isError => "structuredContent" \notin DOMAIN env

\* C29: with delete_task interleaved with update_task or complete_task on
\* one task between select and commit, every invocation returns a
\* well-formed envelope; after delete_task returned success the task is not
\* stored, and no update_task or complete_task on it returns success later.
C29_DeleteIsFinal ==
    /\ \A k \in 1..Len(finished) : envelope_shape(finished[k].env)
    /\ \A k \in 1..Len(finished) :
          (finished[k].op = "delete_task" /\ ~finished[k].env.isError) =>
              /\ finished[k].id \notin DOMAIN tasks
              /\ \A j \in (k + 1)..Len(finished) :
                    (/\ finished[j].op \in {"update_task", "complete_task"}
                     /\ finished[j].id = finished[k].id)
                    => finished[j].env.isError

\* an update or toggle that had selected the task returned after the delete
C29_Witness ==
    \E k, j \in 1..Len(finished) :
        /\ k < j
        /\ finished[k].op = "delete_task"
        /\ ~finished[k].env.isError
        /\ finished[j].op \in {"update_task", "complete_task"}
        /\ finished[j].env = unexpected_error(finished[j].op)

====
